---- MODULE Spec2Model ----
(***************************************************************************)
(* Model of the WayfinderKiosk service layer:                              *)
(*   WayfinderService  (SDK load, map instance lifecycle, waitForInstance) *)
(*   DirectoryService  (POI cache initialisation and accessors)            *)
(*   GateFinderService (findGate's query variants)                         *)
(* JavaScript is single threaded: every action below is one synchronous    *)
(* run of code between two suspension points (an await, or the settling of *)
(* a request made to the SDK).                                             *)
(***************************************************************************)
EXTENDS Integers, Sequences, FiniteSets, TLC

\* ------------------------------------------------------------------ bounds
MaxInits == 2        \* init() invocations
MaxLoads == 1        \* loadSDK() invocations by outside callers
MaxWaits == 3        \* waitForInstance() invocations by outside callers
AppInits == 1        \* init() invocations made around the other two services
MaxInitializes == 2  \* DirectoryService.initialize() invocations
MaxTicks == 1        \* advances of the clock
MaxGates == 1        \* findGate() invocations
MaxMounts == 2       \* mounts of the WayfinderMap component
MaxCmds == 2         \* commands issued to the WayfinderService
MaxRefreshes == 2    \* refreshSecurityWaitTimes() invocations
MaxDigits == 5        \* digits in a text given to parseFlightNumber
MaxTail == 3          \* characters after the mandatory items of a barcode text
MaxScans == 3         \* startScanning calls
MaxScanEvents == 2    \* barcodes decoded and errors reported
MaxResets == 5        \* presses of "Try Again"
MaxUserActs == 3      \* touches, navigations and calls made by the hook's owner
MaxLookups == 1       \* getRouteToGate() / findGateByFlightNumber() invocations, each
MaxQueries == 3      \* category queries that return a list

VARIABLES
  \* WayfinderService fields
  LMInit,            \* 0 (null) or the SDK handle (the number of the import that gave it)
  sdkLoadPromise,    \* 0 (null) or an index into sdkPromises
  instance,          \* 0 (null) or the id of the current map instance
  instanceDeferred,  \* 0 (null) or an index into deferreds
  \* the promises those fields refer to
  sdkPromises,       \* one promise per import() of the SDK module
  deferreds,         \* one promise per deferred created by getInstanceDeferred
  \* the widget instances the SDK has constructed
  nextInst,          \* number of instances constructed so far
  live,              \* instances constructed and not destroyed
  torn,              \* instances destroyed by destroy()
  \* callers
  inits,             \* the init() invocations: position, awaited load, result, and
                     \* nw, the number of waitForInstance() calls made before it settled
  loadCalls,         \* what each loadSDK() call saw and returned
  waitCalls,         \* what each waitForInstance() call saw and returned
  sent,              \* requests sent to widget instances: who sent it, to which
                     \* instance, and whether destroy() had torn that instance down
  \* DirectoryService fields
  poiCache,          \* category key -> 0 (absent) or the bulk fetch its list derives from
  allPOIsCache,      \* 0 (null) or the number of the bulk fetch it holds
  cacheTimestamp,    \* 0 (null) or Date.now() at population
  initPromise,       \* 0 (null) or an index into dirPromises
  dirPromises,       \* one promise per run of initialize()'s body
  dirRuns,           \* the runs of initialize()'s body: position, awaited map, fetch
  bulkFetches,       \* bulk POI requests issued to the map so far
  initCalls,         \* what each initialize() call saw and returned
  acc,               \* the latest accessor invocation: position, awaited promise, result
  now,               \* Date.now()
  \* GateFinderService
  gates,             \* the findGate() invocations
  \* the widget behind the instances, and the last tear-down asked of it
  widget,            \* what fire('destroy') does now: "ok", or "throws"
  teardown,          \* the last destroy() of a session: the instance, what fire()
                     \* did, whether destroy() threw
  \* the WayfinderMap component
  comps,             \* its mounts: the refs, the state, the init() it awaits, and
                     \* the onMapReady / onError callbacks it has run
  \* commands
  initialMapState,   \* the store's saved map state: 0 (null) or a token
  calls,             \* the commands called on the service: which, with what, when,
                     \* the instance at that moment, whether the call threw
  cmds,              \* the commands the service has sent to widget instances
  timers,            \* the setTimeout callbacks not yet run
  clock,             \* ms since the app started
  \* DirectoryService.refreshSecurityWaitTimes
  refresh,           \* the latest invocation: position, awaited wait / promise, the
                     \* map, whether its fetch failed, result
  \* the arrays behind the DirectoryService caches
  heap,              \* the arrays allocated so far, each a sequence of POIs
  allRef,            \* 0 or the array allPOIsCache refers to
  poiRefs,           \* category key -> 0 or the array poiCache holds for it
  populated,         \* the contents of allPOIsCache when it was set
  given,             \* the lists category queries returned: the key, the array, its
                     \* contents then, whether it came from poiCache
  \* GateFinderService, the other lookups
  routes,            \* the getRouteToGate() invocations
  flights,           \* the findGateByFlightNumber() invocations
  \* GateFinderService.parseFlightNumber
  flightInput,       \* the text it is given, and the pieces the text was put together from
  flightParsed,      \* whether it was called, and what it returned
  \* BCBPParser.parse
  bcbpInput,         \* the raw barcode text it is given
  bcbpParsed,        \* whether it was called, and what it returned
  \* the kiosk store (zustand, with the persist middleware)
  store,             \* its state
  persisted,         \* what the middleware has written to local storage
  \* useInactivityTimer, as AppLayout mounts it
  enabled,           \* the hook's `enabled` option
  timeoutRef,        \* timeoutRef.current: 0 (null) or a timer id
  hookTimers,        \* the hook's setTimeout callbacks not yet run or cleared
  nextTimer,         \* timers the hook has set so far
  lastTouch,         \* when the last touchstart, click or keydown reached the window
  fired,             \* the runs of the timeout callback
  backTask,          \* MapView.handleBack's delayed state update is pending
  userActs,          \* things the user (or the hook's owner) has done so far
  userLeft,          \* the user has walked away
  \* ErrorBoundary
  boundary,          \* this.state
  reloadTimeout,     \* this.reloadTimeout: 0 (null) or a timer id
  reloadTimers,      \* the reload timers not yet run or cleared
  caught,            \* the runs of componentDidCatch
  waited,            \* five seconds have passed on the error screen
  reloads,           \* window.location.reload() calls
  mounted,           \* the boundary is mounted
  resets,            \* presses of "Try Again" so far
  \* BarcodeScannerService
  isScanning,
  controls,          \* this.controls: 0 (null) or a decode session
  scans,             \* the startScanning calls
  sessions,          \* the decode sessions started: "running" or "stopped"
  scanEvents         \* calls of onResult and onError, and stopScanning calls

sessionVars == <<LMInit, sdkLoadPromise, instance, instanceDeferred, sdkPromises,
                 deferreds, nextInst, live, torn, teardown, inits, loadCalls, waitCalls>>

dirVars == <<poiCache, allPOIsCache, cacheTimestamp, initPromise, dirPromises, dirRuns,
             bulkFetches, initCalls, acc, now>>

\* state of the callers added around the three services
cmdVars == <<initialMapState, calls, cmds, timers, clock>>

viewVars == <<heap, allRef, poiRefs, populated, given>>

lookupVars == <<routes, flights>>

\* state of the parts of the application around the services
parseVars == <<flightInput, flightParsed, bcbpInput, bcbpParsed>>

storeVars == <<store, persisted>>

hookVars == <<enabled, timeoutRef, hookTimers, nextTimer, lastTouch, fired, backTask, userActs,
              userLeft>>

boundaryVars == <<boundary, reloadTimeout, reloadTimers, caught, waited, reloads, mounted,
                  resets>>

scanVars == <<isScanning, controls, scans, sessions, scanEvents>>

appVars == <<lookupVars, parseVars, storeVars, hookVars, boundaryVars, scanVars>>

\* what the lookups, the parsers and the kiosk's screens each leave alone
lookupFrame == <<parseVars, storeVars, hookVars, boundaryVars, scanVars>>
kioskFrame == <<sessionVars, dirVars, gates, widget, comps, refresh, viewVars, initialMapState,
                timers, lookupVars, parseVars, boundaryVars, scanVars>>


extVars == <<widget, comps, cmdVars, refresh, viewVars, appVars>>

\* everything but appVars
coreVars == <<sessionVars, sent, dirVars, gates, widget, comps, cmdVars, refresh, viewVars>>

parseFrame == <<coreVars, lookupVars, storeVars, hookVars, boundaryVars, scanVars>>
boundaryFrame == <<coreVars, lookupVars, parseVars, storeVars, hookVars, scanVars>>
scanFrame == <<coreVars, lookupVars, parseVars, storeVars, hookVars, boundaryVars>>
storeFrame == <<coreVars, lookupVars, parseVars, hookVars, boundaryVars, scanVars>>

vars == <<sessionVars, sent, dirVars, gates, extVars>>

\* --------------------------------------------------------- DirectoryService
Keys == {"shop", "dine", "relax"}                \* the tabs' category keys
CACHE_TTL == 24 * 60 * 60 * 1000                 \* ms
StartTime == CACHE_TTL                           \* Date.now() when the app starts
TickStep == CACHE_TTL                           \* the clock advances by one TTL

\* ---------------------------------------------------------------- promises
Pending == [st |-> "pending", val |-> 0]

\* resolve() / reject() of a promise: only the first settlement takes effect.
Settle(ps, p, st, v) ==
  IF ps[p].st = "pending" THEN [ps EXCEPT ![p] = [st |-> st, val |-> v]] ELSE ps

\* A value a caller got back: either at once, or as one of the promises.
Now(v) == [kind |-> "val", p |-> 0, val |-> v]
Later(p) == [kind |-> "promise", p |-> p, val |-> 0]

\* What an awaited result is worth, given the promises ps it may refer to.
Outcome(r, ps) == IF r.kind = "val" THEN [st |-> "resolved", val |-> r.val] ELSE ps[r.p]

StateOf(ps, p) == IF p = 0 THEN "none" ELSE ps[p].st

\* -------------------------------------------------------- WayfinderService
\* loadSDK(): cached handle, else the load in progress, else a new import().
loadSDK_NoShare(who) ==
  /\ IF LMInit # 0
       THEN UNCHANGED <<sdkLoadPromise, sdkPromises>>
       ELSE /\ sdkPromises' = Append(sdkPromises, Pending)
            /\ sdkLoadPromise' = Len(sdkPromises) + 1
  /\ loadCalls' = Append(loadCalls,
       [who |-> who, lm |-> LMInit, slot |-> sdkLoadPromise,
        slotSt |-> StateOf(sdkPromises, sdkLoadPromise),
        imports |-> Len(sdkPromises') - Len(sdkPromises),
        ret |-> IF LMInit # 0 THEN Now(LMInit) ELSE Later(sdkLoadPromise')])
  /\ UNCHANGED LMInit

loadSDK(who) ==
  /\ IF LMInit # 0 \/ sdkLoadPromise # 0
       THEN UNCHANGED <<sdkLoadPromise, sdkPromises>>
       ELSE /\ sdkPromises' = Append(sdkPromises, Pending)
            /\ sdkLoadPromise' = Len(sdkPromises) + 1
  /\ loadCalls' = Append(loadCalls,
       [who |-> who, lm |-> LMInit, slot |-> sdkLoadPromise,
        slotSt |-> StateOf(sdkPromises, sdkLoadPromise),
        imports |-> Len(sdkPromises') - Len(sdkPromises),
        ret |-> IF LMInit # 0 THEN Now(LMInit) ELSE Later(sdkLoadPromise')])
  /\ UNCHANGED LMInit

\* The import() of load p succeeds: this.LMInit is set and the promise resolves.
SdkImportOk(p) ==
  /\ sdkPromises[p].st = "pending"
  /\ LMInit' = p
  /\ sdkPromises' = Settle(sdkPromises, p, "resolved", p)
  /\ UNCHANGED sdkLoadPromise

\* The import() fails (or module.default is missing): the catch rethrows, the
\* promise rejects; sdkLoadPromise keeps referring to it.
SdkImportFail(p) ==
  /\ sdkPromises[p].st = "pending"
  /\ sdkPromises' = Settle(sdkPromises, p, "rejected", 0)
  /\ UNCHANGED <<LMInit, sdkLoadPromise>>

\* destroy(): fire('destroy') on the instance, which tears the widget down or
\* throws; the error is caught and logged; the handle and the deferred are
\* cleared.
destroy_NoCatch ==
  IF instance # 0
    THEN IF widget = "ok"
           THEN /\ torn' = torn \cup {instance}
                /\ live' = live \ {instance}
                /\ teardown' = [inst |-> instance, fire |-> widget, threw |-> FALSE]
                /\ instance' = 0
                /\ instanceDeferred' = 0
           ELSE /\ teardown' = [inst |-> instance, fire |-> widget, threw |-> TRUE]
                /\ UNCHANGED <<torn, live, instance, instanceDeferred>>
    ELSE UNCHANGED <<torn, live, teardown, instance, instanceDeferred>>

destroy ==
  IF instance # 0
    THEN /\ torn' = IF widget = "ok" THEN torn \cup {instance} ELSE torn
         /\ live' = IF widget = "ok" THEN live \ {instance} ELSE live
         /\ teardown' = [inst |-> instance, fire |-> widget, threw |-> FALSE]
         /\ instance' = 0
         /\ instanceDeferred' = 0
    ELSE UNCHANGED <<torn, live, teardown, instance, instanceDeferred>>

\* getInstanceDeferred() as used by waitForInstance(): the deferred is created
\* lazily and shared.
waitForInstance_Fresh(who) ==
  /\ waitCalls' = Append(waitCalls,
       [who |-> who, inst |-> instance, slot |-> instanceDeferred,
        ret |-> IF instance # 0 THEN Now(instance) ELSE Later(Len(deferreds) + 1)])
  /\ IF instance # 0
       THEN UNCHANGED <<instanceDeferred, deferreds>>
       ELSE /\ deferreds' = Append(deferreds, Pending)
            /\ instanceDeferred' = Len(deferreds) + 1

waitForInstance(who) ==
  /\ waitCalls' = Append(waitCalls,
       [who |-> who, inst |-> instance, slot |-> instanceDeferred,
        ret |-> IF instance # 0 THEN Now(instance)
                ELSE IF instanceDeferred # 0 THEN Later(instanceDeferred)
                ELSE Later(Len(deferreds) + 1)])
  /\ IF instance # 0 \/ instanceDeferred # 0
       THEN UNCHANGED <<instanceDeferred, deferreds>>
       ELSE /\ deferreds' = Append(deferreds, Pending)
            /\ instanceDeferred' = Len(deferreds) + 1

\* init(), first part: destroy a current instance, call loadSDK(), await it.
InitStart(i) ==
  /\ inits[i].pc = "idle"
  /\ IF i = 1 THEN TRUE ELSE inits[i - 1].pc # "idle"
  /\ destroy
  /\ loadSDK("init")
  /\ inits' = [inits EXCEPT ![i].pc = "awaitSDK", ![i].load = Len(loadCalls) + 1]
  /\ UNCHANGED <<deferreds, nextInst, waitCalls>>

\* init(), after `await this.loadSDK()`: a rejection leaves init() before its
\* try block; otherwise LMInit.newMap() is called and awaited.
InitAfterSDK(i) ==
  /\ inits[i].pc = "awaitSDK"
  /\ LET o == Outcome(loadCalls[inits[i].load].ret, sdkPromises) IN
       /\ o.st # "pending"
       /\ inits' = [inits EXCEPT ![i].pc = IF o.st = "resolved" THEN "awaitNewMap" ELSE "failed",
                                 ![i].err = IF o.st = "resolved" THEN "" ELSE "load",
                                 ![i].nw = IF o.st = "resolved" THEN 0 ELSE Len(waitCalls)]
  /\ UNCHANGED <<LMInit, sdkLoadPromise, instance, instanceDeferred, sdkPromises,
                 deferreds, nextInst, live, torn, teardown, loadCalls, waitCalls>>

\* init(), newMap() resolved: the instance is stored, the deferred resolved.
InitNewMapOk(i) ==
  /\ inits[i].pc = "awaitNewMap"
  /\ nextInst' = nextInst + 1
  /\ instance' = nextInst + 1
  /\ live' = live \cup {nextInst + 1}
  /\ deferreds' = IF instanceDeferred # 0
                    THEN Settle(deferreds, instanceDeferred, "resolved", nextInst + 1)
                    ELSE deferreds
  /\ inits' = [inits EXCEPT ![i].pc = "done", ![i].val = nextInst + 1,
                            ![i].nw = Len(waitCalls)]
  /\ UNCHANGED <<LMInit, sdkLoadPromise, instanceDeferred, sdkPromises, torn, teardown,
                 loadCalls, waitCalls>>

\* init(), newMap() rejected: the deferred is rejected and the slot cleared.
InitNewMapFail_KeepSlot(i) ==
  /\ inits[i].pc = "awaitNewMap"
  /\ deferreds' = IF instanceDeferred # 0
                    THEN Settle(deferreds, instanceDeferred, "rejected", 0)
                    ELSE deferreds
  /\ inits' = [inits EXCEPT ![i].pc = "failed", ![i].err = "construct",
                            ![i].nw = Len(waitCalls)]
  /\ UNCHANGED <<LMInit, sdkLoadPromise, instance, instanceDeferred, sdkPromises,
                 nextInst, live, torn, teardown, loadCalls, waitCalls>>

InitNewMapFail(i) ==
  /\ inits[i].pc = "awaitNewMap"
  /\ deferreds' = IF instanceDeferred # 0
                    THEN Settle(deferreds, instanceDeferred, "rejected", 0)
                    ELSE deferreds
  /\ instanceDeferred' = 0
  /\ inits' = [inits EXCEPT ![i].pc = "failed", ![i].err = "construct",
                            ![i].nw = Len(waitCalls)]
  /\ UNCHANGED <<LMInit, sdkLoadPromise, instance, sdkPromises, nextInst, live, torn, teardown,
                 loadCalls, waitCalls>>

\* ------------------------------------------------- callers of the service
LoadSDKCall ==
  /\ Cardinality({c \in 1..Len(loadCalls) : loadCalls[c].who = "caller"}) < MaxLoads
  /\ loadSDK("caller")
  /\ UNCHANGED <<instance, instanceDeferred, deferreds, nextInst, live, torn, teardown, inits,
                 waitCalls, sent, dirVars, gates, extVars>>

SdkSettleOk ==
  \E p \in 1..Len(sdkPromises) :
    /\ SdkImportOk(p)
    /\ UNCHANGED <<instance, instanceDeferred, deferreds, nextInst, live, torn, teardown, inits,
                   loadCalls, waitCalls, sent, dirVars, gates, extVars>>

SdkSettleFail ==
  \E p \in 1..Len(sdkPromises) :
    /\ SdkImportFail(p)
    /\ UNCHANGED <<instance, instanceDeferred, deferreds, nextInst, live, torn, teardown, inits,
                   loadCalls, waitCalls, sent, dirVars, gates, extVars>>

WaitCall ==
  /\ Cardinality({c \in 1..Len(waitCalls) : waitCalls[c].who = "caller"}) < MaxWaits
  /\ waitForInstance("caller")
  /\ UNCHANGED <<LMInit, sdkLoadPromise, instance, sdkPromises, nextInst, live, torn, teardown,
                 inits, loadCalls, sent, dirVars, gates, extVars>>

DestroyCall ==
  /\ destroy
  /\ UNCHANGED <<LMInit, sdkLoadPromise, sdkPromises, deferreds, nextInst, inits,
                 loadCalls, waitCalls, sent, dirVars, gates, extVars>>

InitCall == \E i \in DOMAIN inits : InitStart(i) /\ UNCHANGED <<sent, dirVars, gates, extVars>>
InitSdkLoaded == \E i \in DOMAIN inits : InitAfterSDK(i) /\ UNCHANGED <<sent, dirVars, gates, extVars>>
InitMapOk == \E i \in DOMAIN inits : InitNewMapOk(i) /\ UNCHANGED <<sent, dirVars, gates, extVars>>
InitMapFail == \E i \in DOMAIN inits : InitNewMapFail(i) /\ UNCHANGED <<sent, dirVars, gates, extVars>>

\* --------------------------------------------------------- DirectoryService
WaitResult(w) == Outcome(waitCalls[w].ret, deferreds)

\* isCacheValid()
isCacheValid == cacheTimestamp # 0 /\ now - cacheTimestamp < CACHE_TTL

\* initialize(): the promise in the slot if there is one; otherwise a new run
\* of the body, which goes as far as fetchAllPOIs' `await this.getMapInstance()`.
initialize_NoGuard ==
  /\ dirPromises' = Append(dirPromises, Pending)
  /\ initPromise' = Len(dirPromises) + 1
  /\ waitForInstance("directory")
  /\ dirRuns' = Append(dirRuns,
       [pc |-> "awaitMap", wait |-> Len(waitCalls) + 1, map |-> 0, gen |-> 0])
  /\ initCalls' = Append(initCalls,
       [slot |-> initPromise, ret |-> initPromise',
        runs |-> Len(dirPromises') - Len(dirPromises)])

initialize ==
  IF initPromise # 0
    THEN /\ initCalls' = Append(initCalls,
              [slot |-> initPromise, ret |-> initPromise, runs |-> 0])
         /\ UNCHANGED <<initPromise, dirPromises, dirRuns, waitCalls, instanceDeferred,
                        deferreds>>
    ELSE /\ dirPromises' = Append(dirPromises, Pending)
         /\ initPromise' = Len(dirPromises) + 1
         /\ waitForInstance("directory")
         /\ dirRuns' = Append(dirRuns,
              [pc |-> "awaitMap", wait |-> Len(waitCalls) + 1, map |-> 0, gen |-> 0])
         /\ initCalls' = Append(initCalls,
              [slot |-> initPromise, ret |-> initPromise',
               runs |-> Len(dirPromises') - Len(dirPromises)])

\* initialize()'s catch: the slot is cleared and the promise rejects.
RunFails_KeepSlot(p) ==
  /\ initPromise' = initPromise
  /\ dirPromises' = Settle(dirPromises, p, "rejected", 0)
  /\ dirRuns' = [dirRuns EXCEPT ![p].pc = "failed"]

RunFails(p) ==
  /\ initPromise' = 0
  /\ dirPromises' = Settle(dirPromises, p, "rejected", 0)
  /\ dirRuns' = [dirRuns EXCEPT ![p].pc = "failed"]

\* fetchAllPOIs() after `await this.getMapInstance()`: the bulk request goes to
\* the map the wait produced.
FetchAfterMap(p) ==
  /\ dirRuns[p].pc = "awaitMap"
  /\ LET o == WaitResult(dirRuns[p].wait) IN
       /\ o.st # "pending"
       /\ IF o.st = "rejected"
            THEN RunFails(p) /\ UNCHANGED <<bulkFetches, sent>>
            ELSE /\ bulkFetches' = bulkFetches + 1
                 /\ sent' = sent \cup {[from |-> "fetchAllPOIs", inst |-> o.val,
                                        torn |-> o.val \in torn]}
                 /\ dirRuns' = [dirRuns EXCEPT ![p].pc = "awaitBulk", ![p].map = o.val,
                                               ![p].gen = bulkFetches + 1]
                 /\ UNCHANGED <<initPromise, dirPromises>>
  /\ UNCHANGED <<poiCache, allPOIsCache, cacheTimestamp, initCalls, acc, now>>

\* The bulk request resolved: distances are computed, the cache and its
\* timestamp are set, the promise resolves.
FetchOk(p) ==
  /\ dirRuns[p].pc = "awaitBulk"
  /\ allPOIsCache' = dirRuns[p].gen
  /\ cacheTimestamp' = now
  /\ dirPromises' = Settle(dirPromises, p, "resolved", 0)
  /\ dirRuns' = [dirRuns EXCEPT ![p].pc = "done"]
  /\ UNCHANGED <<poiCache, initPromise, bulkFetches, initCalls, acc, now, sent>>

\* The bulk request rejected.
FetchFail(p) ==
  /\ dirRuns[p].pc = "awaitBulk"
  /\ RunFails(p)
  /\ UNCHANGED <<poiCache, allPOIsCache, cacheTimestamp, bulkFetches, initCalls, acc,
                 now, sent>>

\* The state clearCache() leaves after a completed initialize(): the promise in
\* the slot has resolved and the cache it filled is gone.
PostClear == initPromise # 0 /\ dirPromises[initPromise].st = "resolved" /\ allPOIsCache = 0

\* getPOIsByCategory() / ensureInitialized() from the test of allPOIsCache on:
\* the record of the invocation once it has finished.
Finished(k) ==
  IF allPOIsCache = 0
    THEN [k EXCEPT !.pc = "failed", !.err = "not initialized"]
    ELSE [k EXCEPT !.pc = "done", !.val = allPOIsCache]

\* ... and the category cache after it.
Memoized(k) ==
  IF allPOIsCache # 0 /\ k.kind = "category"
    THEN [poiCache EXCEPT ![k.key] = allPOIsCache]
    ELSE poiCache

\* An accessor is called: getPOIsByCategory(key, ...) ("category"), or one of
\* getAllPOIs, getNavigablePOIs, getPOIsBySecurityStatus, getSecurityWaitTimes,
\* which all begin with ensureInitialized() ("ensure").
Accessor(kind, key) ==
  LET k == [kind |-> kind, key |-> key, pc |-> "called", p |-> 0, val |-> 0, err |-> "",
            postClear |-> PostClear, fetches |-> bulkFetches] IN
    IF kind = "category" /\ poiCache[key] # 0 /\ isCacheValid
      THEN /\ acc' = [k EXCEPT !.pc = "done", !.val = poiCache[key]]
           /\ UNCHANGED poiCache
      ELSE IF initPromise # 0
        THEN /\ acc' = [k EXCEPT !.pc = "await", !.p = initPromise]
             /\ UNCHANGED poiCache
        ELSE /\ acc' = Finished(k)
             /\ poiCache' = Memoized(k)

\* ... and resumes after `await this.initPromise`.
AccessorResumes ==
  /\ acc.pc = "await"
  /\ dirPromises[acc.p].st # "pending"
  /\ IF dirPromises[acc.p].st = "rejected"
       THEN /\ acc' = [acc EXCEPT !.pc = "failed", !.err = "initialize failed"]
            /\ UNCHANGED poiCache
       ELSE /\ acc' = Finished(acc)
            /\ poiCache' = Memoized(acc)

\* clearCache()
clearCache ==
  /\ poiCache' = [k \in Keys |-> 0]
  /\ allPOIsCache' = 0
  /\ cacheTimestamp' = 0

\* ------------------------------------------- callers of the DirectoryService
InitializeCall ==
  /\ Len(initCalls) < MaxInitializes
  /\ initialize
  /\ UNCHANGED <<LMInit, sdkLoadPromise, instance, sdkPromises, nextInst, live, torn,
                 teardown, inits, loadCalls, sent, gates, extVars>>
  /\ UNCHANGED <<poiCache, allPOIsCache, cacheTimestamp, bulkFetches, acc, now>>

MapReady == \E p \in 1..Len(dirRuns) : FetchAfterMap(p) /\ UNCHANGED <<sessionVars, gates, extVars>>
BulkOk == \E p \in 1..Len(dirRuns) : FetchOk(p) /\ UNCHANGED <<sessionVars, gates, extVars>>
BulkFail == \E p \in 1..Len(dirRuns) : FetchFail(p) /\ UNCHANGED <<sessionVars, gates, extVars>>

\* One accessor invocation is followed at a time: the next is called once the
\* one before has returned.
AccessorCall ==
  /\ acc.pc \in {"none", "done", "failed"}
  /\ \E kind \in {"category", "ensure"} :
       \E key \in IF kind = "category" THEN Keys ELSE {""} : Accessor(kind, key)
  /\ UNCHANGED <<allPOIsCache, cacheTimestamp, initPromise, dirPromises, dirRuns,
                 bulkFetches, initCalls, now>>
  /\ UNCHANGED <<sessionVars, sent, gates, extVars>>

AccessorResume ==
  /\ AccessorResumes
  /\ UNCHANGED <<allPOIsCache, cacheTimestamp, initPromise, dirPromises, dirRuns,
                 bulkFetches, initCalls, now>>
  /\ UNCHANGED <<sessionVars, sent, gates, extVars>>

ClearCacheCall ==
  /\ clearCache
  /\ UNCHANGED <<initPromise, dirPromises, dirRuns, bulkFetches, initCalls, acc, now>>
  /\ UNCHANGED <<sessionVars, sent, gates, extVars>>

\* Time passes.  The clock is read only to stamp the cache and to compare with
\* that stamp, so its advance is followed while a stamp exists.
Tick ==
  /\ cacheTimestamp # 0
  /\ now < StartTime + MaxTicks * TickStep
  /\ now' = now + TickStep
  /\ UNCHANGED <<poiCache, allPOIsCache, cacheTimestamp, initPromise, dirPromises, dirRuns,
                 bulkFetches, initCalls, acc>>
  /\ UNCHANGED <<sessionVars, sent, gates, extVars>>

\* ------------------------------------------------- the contents of the caches
\* Strings are sequences of characters.
UpperCase == <<"A", "B", "C", "D", "E", "F", "G", "H", "I", "J", "K", "L", "M",
               "N", "O", "P", "Q", "R", "S", "T", "U", "V", "W", "X", "Y", "Z">>
LowerCase == <<"a", "b", "c", "d", "e", "f", "g", "h", "i", "j", "k", "l", "m",
               "n", "o", "p", "q", "r", "s", "t", "u", "v", "w", "x", "y", "z">>

Chars == {UpperCase[i] : i \in DOMAIN UpperCase} \cup {LowerCase[i] : i \in DOMAIN LowerCase}
           \cup {".", "-"}

LowerChar ==
  [ch \in Chars |->
     IF \E u \in DOMAIN UpperCase : UpperCase[u] = ch
       THEN LowerCase[CHOOSE u \in DOMAIN UpperCase : UpperCase[u] = ch]
       ELSE ch]

toLowerCase(str) == [i \in DOMAIN str |-> LowerChar[str[i]]]

startsWith(str, prefix) ==
  Len(prefix) <= Len(str) /\ SubSeq(str, 1, Len(prefix)) = prefix

CATEGORY_PREFIXES ==
  [shop |-> {<<"s", "h", "o", "p">>,
            <<"r", "e", "t", "a", "i", "l", ".">>,
            <<"d", "u", "t", "y", "-", "f", "r", "e", "e", ".">>},
   dine |-> {<<"e", "a", "t", ".">>,
            <<"f", "o", "o", "d", ".">>,
            <<"r", "e", "s", "t", "a", "u", "r", "a", "n", "t", ".">>,
            <<"c", "a", "f", "e", ".">>},
   relax |-> {<<"s", "e", "r", "v", "i", "c", "e", "s", ".", "l", "o", "u", "n", "g", "e">>,
            <<"r", "e", "l", "a", "x">>,
            <<"a", "m", "e", "n", "i", "t", "i", "e", "s", ".">>}]

\* The kiosk's floor; positions are metres east and north of the kiosk.
KioskFloor == 1

\* Math.sqrt, on the squares the sample positions give.
Sqrt(n) == CHOOSE r \in 0..n : r * r <= n /\ (r + 1) * (r + 1) > n

fastDistanceMeters(dx, dy) == Sqrt(dx * dx + dy * dy)

\* POIs the SDK may return: a category (empty when there is none), a floor, a
\* position.
SamplePOIs ==
  {[id |-> 1, category |-> <<"S", "h", "o", "p">>, floorId |-> 1, dx |-> 0, dy |-> 6],
   [id |-> 2, category |-> <<"s", "h", "o", "p">>, floorId |-> 2, dx |-> 0, dy |-> 2],
   [id |-> 3, category |-> <<"E", "a", "t", ".", "x">>, floorId |-> 2, dx |-> 3, dy |-> 4]}

\* What a bulk request may return: three of them, in any order.
Venues ==
  {<<a, b, c>> : a, b, c \in SamplePOIs} \ 
    {v \in {<<a, b, c>> : a, b, c \in SamplePOIs} : v[1] = v[2] \/ v[1] = v[3] \/ v[2] = v[3]}

\* More of them: a POI without a category, categories that contain a prefix
\* but do not start with one, two shops on the kiosk's floor, two POIs at the
\* same distance.
RichPOIs ==
  SamplePOIs \cup
  {[id |-> 4, category |-> <<>>, floorId |-> 1, dx |-> 0, dy |-> 1],
   [id |-> 5, category |-> <<"R", "E", "T", "A", "I", "L", ".", "x">>, floorId |-> 1,
    dx |-> 0, dy |-> 3],
   [id |-> 6, category |-> <<"e", "S", "h", "o", "p">>, floorId |-> 2, dx |-> 1, dy |-> 0],
   [id |-> 7, category |-> <<"r", "e", "t", "a", "i", "l">>, floorId |-> 1, dx |-> 2, dy |-> 0],
   [id |-> 8, category |-> <<"s", "h", "o", "p", ".", "x">>, floorId |-> 3, dx |-> 2, dy |-> 0]}

RichVenues ==
  {v \in {<<a, b, c>> : a, b, c \in RichPOIs} : v[1] # v[2] /\ v[1] # v[3] /\ v[2] # v[3]}

\* augmentWithDistances(pois)
augmentWithDistances(pois) ==
  [i \in DOMAIN pois |->
     [id |-> pois[i].id, category |-> pois[i].category, floorId |-> pois[i].floorId,
      distanceFromKiosk |-> fastDistanceMeters(pois[i].dx, pois[i].dy)]]

\* prefix.toLowerCase(), for the prefixes of each key
LowerPrefixes == [key \in Keys |-> {toLowerCase(prefix) : prefix \in CATEGORY_PREFIXES[key]}]

\* The filter of getPOIsByCategory: a category, which in lower case starts with
\* one of the key's prefixes in lower case.
InCategory(poi, key) ==
  /\ poi.category # <<>>
  /\ \E prefix \in LowerPrefixes[key] : startsWith(toLowerCase(poi.category), prefix)

\* The comparator of getPOIsByCategory: the kiosk's floor first, then distance.
Compare_DistanceOnly(a, b) == a.distanceFromKiosk - b.distanceFromKiosk

Compare(a, b) ==
  IF a.floorId = KioskFloor /\ b.floorId # KioskFloor THEN -1
  ELSE IF a.floorId # KioskFloor /\ b.floorId = KioskFloor THEN 1
  ELSE a.distanceFromKiosk - b.distanceFromKiosk

\* Array.prototype.sort with that comparator (a stable sort).
RECURSIVE SortInto(_, _)
SortInto(done, rest) ==
  IF rest = <<>> THEN done
  ELSE LET x == Head(rest)
           after == {i \in 1..Len(done) : Compare(x, done[i]) < 0}
           k == IF after = {} THEN Len(done) + 1
                ELSE CHOOSE i \in after : \A j \in after : i <= j
       IN SortInto(SubSeq(done, 1, k - 1) \o <<x>> \o SubSeq(done, k, Len(done)), Tail(rest))

Sort(arr) == SortInto(<<>>, arr)

\* getPOIsByCategory from `this.allPOIsCache.filter(...)` on: a new array with the
\* matching POIs, a copy of it that is sorted, stored in poiCache and returned.
filterAndSort_InPlace(key) ==
  LET sorted == Sort(heap[allRef]) IN
    /\ heap' = Append([heap EXCEPT ![allRef] = sorted],
                       SelectSeq(sorted, LAMBDA poi : InCategory(poi, key)))
    /\ poiRefs' = [poiRefs EXCEPT ![key] = Len(heap) + 1]
    /\ given' = Append(given, [key |-> key, ref |-> Len(heap) + 1, memo |-> FALSE,
                                list |-> SelectSeq(sorted, LAMBDA poi : InCategory(poi, key))])
    /\ UNCHANGED <<allRef, populated>>

filterAndSort(key) ==
  LET filtered == SelectSeq(heap[allRef], LAMBDA poi : InCategory(poi, key))
      sorted == Sort(filtered) IN
    /\ heap' = heap \o <<filtered, sorted>>
    /\ poiRefs' = [poiRefs EXCEPT ![key] = Len(heap) + 2]
    /\ given' = Append(given, [key |-> key, ref |-> Len(heap) + 2, memo |-> FALSE,
                                list |-> sorted])
    /\ UNCHANGED <<allRef, populated>>

\* `return cached`
fromMemo_Refilter(key) ==
  LET filtered == SelectSeq(heap[allRef], LAMBDA poi : InCategory(poi, key))
      sorted == Sort(filtered) IN
    /\ heap' = heap \o <<filtered, sorted>>
    /\ poiRefs' = [poiRefs EXCEPT ![key] = Len(heap) + 2]
    /\ given' = Append(given, [key |-> key, ref |-> Len(heap) + 2, memo |-> TRUE,
                                list |-> sorted])
    /\ UNCHANGED <<allRef, populated>>

fromMemo(key) ==
  /\ given' = Append(given, [key |-> key, ref |-> poiRefs[key], memo |-> TRUE,
                              list |-> heap[poiRefs[key]]])
  /\ UNCHANGED <<heap, allRef, poiRefs, populated>>

\* The bulk request resolved with the POIs raw.
BulkOkData ==
  \E p \in 1..Len(dirRuns), raw \in Venues :
    /\ FetchOk(p)
    /\ heap' = Append(heap, augmentWithDistances(raw))
    /\ allRef' = Len(heap) + 1
    /\ populated' = augmentWithDistances(raw)
    /\ UNCHANGED <<poiRefs, given>>
    /\ UNCHANGED <<sessionVars, gates, widget, comps, cmdVars, refresh, appVars>>

\* The bulk request resolved with any three of the richer POIs.
BulkOkRich ==
  \E p \in 1..Len(dirRuns), raw \in RichVenues :
    /\ FetchOk(p)
    /\ heap' = Append(heap, augmentWithDistances(raw))
    /\ allRef' = Len(heap) + 1
    /\ populated' = augmentWithDistances(raw)
    /\ UNCHANGED <<poiRefs, given>>
    /\ UNCHANGED <<sessionVars, gates, widget, comps, cmdVars, refresh, appVars>>

\* A category getter is called ...
CategoryCall ==
  /\ Len(given) < MaxQueries
  /\ acc.pc \in {"none", "done", "failed"}
  /\ \E key \in Keys :
       /\ Accessor("category", key)
       /\ IF poiCache[key] # 0 /\ isCacheValid THEN fromMemo(key)
          ELSE IF initPromise = 0 /\ allPOIsCache # 0 THEN filterAndSort(key)
          ELSE UNCHANGED viewVars
  /\ UNCHANGED <<allPOIsCache, cacheTimestamp, initPromise, dirPromises, dirRuns,
                 bulkFetches, initCalls, now>>
  /\ UNCHANGED <<sessionVars, sent, gates, widget, comps, cmdVars, refresh, appVars>>

\* ... and resumes after `await this.initPromise`.
CategoryResume ==
  /\ acc.kind = "category"
  /\ AccessorResumes
  /\ IF dirPromises[acc.p].st = "resolved" /\ allPOIsCache # 0
       THEN filterAndSort(acc.key)
       ELSE UNCHANGED viewVars
  /\ UNCHANGED <<allPOIsCache, cacheTimestamp, initPromise, dirPromises, dirRuns,
                 bulkFetches, initCalls, now>>
  /\ UNCHANGED <<sessionVars, sent, gates, widget, comps, cmdVars, refresh, appVars>>

\* ------------------------------------------------- refreshSecurityWaitTimes
\* refreshSecurityWaitTimes(), up to `await this.getMapInstance()`.
refreshSecurityWaitTimes ==
  /\ waitForInstance("refresh")
  /\ refresh' = [pc |-> "awaitMap", wait |-> Len(waitCalls) + 1, map |-> 0, p |-> 0,
                 fetchFailed |-> FALSE, src |-> "", val |-> 0, err |-> ""]

\* ... after it: a rejected wait rejects the call (it is outside the try);
\* otherwise map.getAllPOIs() is requested and awaited.
refreshAfterMap ==
  /\ refresh.pc = "awaitMap"
  /\ LET o == WaitResult(refresh.wait) IN
       /\ o.st # "pending"
       /\ IF o.st = "rejected"
            THEN /\ refresh' = [refresh EXCEPT !.pc = "failed", !.err = "no map"]
                 /\ UNCHANGED sent
            ELSE /\ refresh' = [refresh EXCEPT !.pc = "awaitFetch", !.map = o.val]
                 /\ sent' = sent \cup {[from |-> "refreshSecurityWaitTimes", inst |-> o.val,
                                        torn |-> o.val \in torn]}

\* The fresh POIs arrived: the wait times are extracted from them.
refreshFetched ==
  /\ refresh.pc = "awaitFetch"
  /\ refresh' = [refresh EXCEPT !.pc = "done", !.src = "fresh"]

\* getSecurityWaitTimes() -> ensureInitialized(), from the test of allPOIsCache on.
refreshFromCache(k) ==
  IF allPOIsCache = 0
    THEN [k EXCEPT !.pc = "failed", !.err = "not initialized"]
    ELSE [k EXCEPT !.pc = "done", !.src = "cached", !.val = allPOIsCache]

\* The fetch failed: the catch returns this.getSecurityWaitTimes(), which
\* awaits initPromise if there is one.
refreshFetchFailed ==
  /\ refresh.pc = "awaitFetch"
  /\ refresh' = IF initPromise # 0
                  THEN [refresh EXCEPT !.pc = "awaitInit", !.fetchFailed = TRUE,
                                       !.p = initPromise]
                  ELSE refreshFromCache([refresh EXCEPT !.fetchFailed = TRUE])

\* ... and resumes after `await this.initPromise`.
refreshAfterInit ==
  /\ refresh.pc = "awaitInit"
  /\ dirPromises[refresh.p].st # "pending"
  /\ refresh' = IF dirPromises[refresh.p].st = "rejected"
                  THEN [refresh EXCEPT !.pc = "failed", !.err = "initialize failed"]
                  ELSE refreshFromCache(refresh)

RefreshCall ==
  /\ refresh.pc \in {"none", "done", "failed"}
  /\ Cardinality({c \in 1..Len(waitCalls) : waitCalls[c].who = "refresh"}) < MaxRefreshes
  /\ refreshSecurityWaitTimes
  /\ UNCHANGED <<LMInit, sdkLoadPromise, instance, sdkPromises, nextInst, live, torn,
                 teardown, inits, loadCalls, sent, dirVars, gates, widget, comps, cmdVars, viewVars,
                 appVars>>

RefreshMapReady ==
  /\ refreshAfterMap
  /\ UNCHANGED <<sessionVars, dirVars, gates, widget, comps, cmdVars, viewVars, appVars>>

RefreshOk ==
  /\ refreshFetched
  /\ UNCHANGED <<sessionVars, sent, dirVars, gates, widget, comps, cmdVars, viewVars, appVars>>

RefreshFail ==
  /\ refreshFetchFailed
  /\ UNCHANGED <<sessionVars, sent, dirVars, gates, widget, comps, cmdVars, viewVars, appVars>>

RefreshResume ==
  /\ refreshAfterInit
  /\ UNCHANGED <<sessionVars, sent, dirVars, gates, widget, comps, cmdVars, viewVars, appVars>>

\* The wait times are refreshed while the cache is populated.
RefreshPopulated == allRef # 0 /\ RefreshCall

\* -------------------------------------------------------- GateFinderService
Variants == 1..4     \* "Gate {raw}", "Gate {normalized}", raw, normalized
Answers == {"match", "empty", "reject"}   \* what map.search() does with a variant:
                     \* results holding a gate POI, results holding none, a rejection

\* findGate(), up to its first `await map.search(...)`.  ans is what the SDK
\* answers to each of the four variants.
findGate(ans) ==
  IF instance = 0
    THEN /\ gates' = Append(gates, [pc |-> "failed", map |-> 0, q |-> 0, ans |-> ans,
                                    res |-> "not initialized"])
         /\ UNCHANGED sent
    ELSE /\ gates' = Append(gates, [pc |-> "search", map |-> instance, q |-> 1, ans |-> ans,
                                    res |-> ""])
         /\ sent' = sent \cup {[from |-> "findGate", inst |-> instance, torn |-> instance \in torn]}

\* findGate() after `await map.search(query, true)` for variant q: a rejection
\* is rethrown by the catch, a gate POI in the results is returned, and
\* otherwise the next variant is searched on the same map, or null returned.
findGateResumes(g) ==
  /\ gates[g].pc = "search"
  /\ LET k == gates[g] IN
       CASE k.ans[k.q] = "reject" ->
              /\ gates' = [gates EXCEPT ![g].pc = "failed", ![g].res = "error"]
              /\ UNCHANGED sent
         [] k.ans[k.q] = "match" ->
              /\ gates' = [gates EXCEPT ![g].pc = "done", ![g].res = "match"]
              /\ UNCHANGED sent
         [] k.ans[k.q] = "empty" /\ k.q < 4 ->
              /\ gates' = [gates EXCEPT ![g].q = k.q + 1]
              /\ sent' = sent \cup {[from |-> "findGate", inst |-> k.map,
                                     torn |-> k.map \in torn]}
         [] k.ans[k.q] = "empty" /\ k.q = 4 ->
              /\ gates' = [gates EXCEPT ![g].pc = "done", ![g].res = "null"]
              /\ UNCHANGED sent

FindGateCall ==
  /\ Len(gates) < MaxGates
  /\ \E ans \in [Variants -> Answers] : findGate(ans)
  /\ UNCHANGED <<sessionVars, dirVars, extVars>>

FindGateResume ==
  /\ \E g \in 1..Len(gates) : findGateResumes(g)
  /\ UNCHANGED <<sessionVars, dirVars, extVars>>

\* What map.getDirections() does: directions with steps, directions without
\* any, a rejection.
Directions == {"route", "empty", "reject"}

\* getRouteToGate(), up to `await map.getDirections(from, to, accessible)`.
getRouteToGate(ans) ==
  IF instance = 0
    THEN /\ routes' = Append(routes, [pc |-> "failed", map |-> 0, ans |-> ans,
                                      res |-> "not initialized"])
         /\ UNCHANGED sent
    ELSE /\ routes' = Append(routes, [pc |-> "directions", map |-> instance, ans |-> ans,
                                      res |-> ""])
         /\ sent' = sent \cup {[from |-> "getRouteToGate", inst |-> instance,
                                torn |-> instance \in torn]}

\* ... after it: the directions are returned as they came; a rejection is
\* rethrown by the catch as `Failed to get route to gate`.
getRouteToGateResumes(r) ==
  /\ routes[r].pc = "directions"
  /\ routes' = IF routes[r].ans = "reject"
                 THEN [routes EXCEPT ![r].pc = "failed", ![r].res = "error"]
                 ELSE [routes EXCEPT ![r].pc = "done", ![r].res = routes[r].ans]

\* findGateByFlightNumber(), up to `await map.search(flightNumber, true)`.
findGateByFlightNumber(ans) ==
  IF instance = 0
    THEN /\ flights' = Append(flights, [pc |-> "failed", map |-> 0, ans |-> ans,
                                        res |-> "not initialized"])
         /\ UNCHANGED sent
    ELSE /\ flights' = Append(flights, [pc |-> "search", map |-> instance, ans |-> ans,
                                        res |-> ""])
         /\ sent' = sent \cup {[from |-> "findGateByFlightNumber", inst |-> instance,
                                torn |-> instance \in torn]}

\* ... after it: the gate POI in the results, or null; the catch returns null.
findGateByFlightNumberResumes(f) ==
  /\ flights[f].pc = "search"
  /\ flights' = [flights EXCEPT ![f].pc = "done",
                                ![f].res = IF flights[f].ans = "match" THEN "match" ELSE "null"]

RouteCall ==
  /\ Len(routes) < MaxLookups
  /\ \E ans \in Directions : getRouteToGate(ans)
  /\ UNCHANGED <<sessionVars, dirVars, gates, widget, comps, cmdVars, refresh, viewVars, flights,
                 lookupFrame>>

RouteResume ==
  /\ \E r \in 1..Len(routes) : getRouteToGateResumes(r)
  /\ UNCHANGED <<coreVars, flights, lookupFrame>>

FlightGateCall ==
  /\ Len(flights) < MaxLookups
  /\ \E ans \in Answers : findGateByFlightNumber(ans)
  /\ UNCHANGED <<sessionVars, dirVars, gates, widget, comps, cmdVars, refresh, viewVars, routes,
                 lookupFrame>>

FlightGateResume ==
  /\ \E f \in 1..Len(flights) : findGateByFlightNumberResumes(f)
  /\ UNCHANGED <<coreVars, routes, lookupFrame>>

\* ------------------------------------------------------- parseFlightNumber
Digits == <<"0", "1", "2", "3", "4", "5", "6", "7", "8", "9">>

IsLetter(ch) == ch \in DOMAIN LowerChar /\ ch \notin {".", "-"}
IsDigit(ch) == \E d \in DOMAIN Digits : Digits[d] = ch
IsSpace(ch) == ch = " "

\* toLowerCase / toUpperCase on text that may hold digits and blanks
LowerOf(str) == [i \in DOMAIN str |-> IF str[i] \in DOMAIN LowerChar THEN LowerChar[str[i]] ELSE str[i]]
UpperOf(str) ==
  [i \in DOMAIN str |->
     IF \E l \in DOMAIN LowerCase : LowerCase[l] = str[i]
       THEN UpperCase[CHOOSE l \in DOMAIN LowerCase : LowerCase[l] = str[i]]
       ELSE str[i]]

\* the position of the first character from i on that is not white space
SkipSpaces(str, i) ==
  LET rest == {j \in i..Len(str) : ~IsSpace(str[j])} IN
    IF rest = {} THEN Len(str) + 1 ELSE CHOOSE j \in rest : \A k \in rest : j <= k

\* String.prototype.trim
trim(str) ==
  LET ink == {j \in DOMAIN str : ~IsSpace(str[j])} IN
    IF ink = {} THEN <<>>
    ELSE SubSeq(str, CHOOSE j \in ink : \A k \in ink : j <= k,
                     CHOOSE j \in ink : \A k \in ink : j >= k)

\* str.replace(new RegExp(`^${word}\\s+`, 'i'), by)
replaceWord(str, word, by) ==
  IF /\ Len(str) > Len(word)
     /\ LowerOf(SubSeq(str, 1, Len(word))) = word
     /\ IsSpace(str[Len(word) + 1])
    THEN by \o SubSeq(str, SkipSpaces(str, Len(word) + 1), Len(str))
    ELSE str

\* airlineMap, in the order of its entries
airlineMap ==
  << [name |-> <<"a", "m", "e", "r", "i", "c", "a", "n">>, code |-> <<"A", "A">>],
     [name |-> <<"d", "e", "l", "t", "a">>, code |-> <<"D", "L">>],
     [name |-> <<"u", "n", "i", "t", "e", "d">>, code |-> <<"U", "A">>],
     [name |-> <<"s", "o", "u", "t", "h", "w", "e", "s", "t">>, code |-> <<"W", "N">>],
     [name |-> <<"a", "l", "a", "s", "k", "a">>, code |-> <<"A", "S">>],
     [name |-> <<"j", "e", "t", "b", "l", "u", "e">>, code |-> <<"B", "6">>],
     [name |-> <<"s", "p", "i", "r", "i", "t">>, code |-> <<"N", "K">>],
     [name |-> <<"f", "r", "o", "n", "t", "i", "e", "r">>, code |-> <<"F", "9">>] >>

\* Object.entries(airlineMap).forEach(...): the replacements, one after another
RECURSIVE replaceNames(_, _)
replaceNames(cleaned, n) ==
  IF n > Len(airlineMap) THEN cleaned
  ELSE replaceNames(replaceWord(cleaned, airlineMap[n].name, airlineMap[n].code \o <<" ">>), n + 1)

\* cleaned.match(/^([A-Z]{2})\s*[-]?\s*(\d{1,4})$/i): the two groups, or none
matchFlight(cleaned) ==
  IF Len(cleaned) >= 3 /\ IsLetter(cleaned[1]) /\ IsLetter(cleaned[2])
    THEN LET a == SkipSpaces(cleaned, 3)
             b == IF a <= Len(cleaned) /\ cleaned[a] = "-" THEN a + 1 ELSE a
             c == SkipSpaces(cleaned, b)
             num == SubSeq(cleaned, c, Len(cleaned))
         IN IF Len(num) \in 1..4 /\ \A i \in DOMAIN num : IsDigit(num[i])
              THEN [found |-> TRUE, code |-> SubSeq(cleaned, 1, 2), num |-> num]
              ELSE [found |-> FALSE, code |-> <<>>, num |-> <<>>]
    ELSE [found |-> FALSE, code |-> <<>>, num |-> <<>>]

\* parseFlightNumber(input)
parseFlightNumber(input) ==
  IF input = <<>> THEN [called |-> TRUE, null |-> TRUE, value |-> <<>>]
  ELSE LET cleaned == replaceNames(replaceWord(trim(input), <<"f", "l", "i", "g", "h", "t">>, <<>>), 1)
           match == matchFlight(cleaned)
       IN IF match.found
            THEN [called |-> TRUE, null |-> FALSE, value |-> UpperOf(match.code) \o match.num]
            ELSE [called |-> TRUE, null |-> TRUE, value |-> <<>>]

\* The texts it is tried on, put together from a lead, a code or name, a
\* separator, digits and a tail.
Leads == {<<>>, <<" ">>, <<"F", "l", "i", "g", "h", "t", " ">>,
          <<"f", "L", "I", "G", "H", "T", " ", " ">>, <<"F", "l", "i", "g", "h", "t">>}
Heads == {<<"A", "A">>, <<"a", "a">>, <<"d", "L">>, <<"A">>, <<"A", "A", "A">>, <<"B", "6">>,
          <<"A", "m", "e", "r", "i", "c", "a", "n">>, <<"D", "E", "L", "T", "A">>,
          <<"u", "n", "i", "t", "e", "d">>, <<"S", "o", "u", "t", "h", "w", "e", "s", "t">>,
          <<"a", "l", "a", "s", "k", "a">>, <<"J", "e", "t", "B", "l", "u", "e">>,
          <<"s", "p", "i", "r", "i", "t">>, <<"F", "r", "o", "n", "t", "i", "e", "r">>,
          <<"n", "o", "t", " ", "a">>, <<>>}
Seps == {<<>>, <<" ">>, <<"-">>, <<" ", " ">>, <<" ", "-", " ">>, <<"-", "-">>}
Numbers == {SubSeq(<<"1", "2", "3", "4", "0", "9", "7">>, 1, n) : n \in 0..MaxDigits}
Tails == {<<>>, <<" ">>, <<"x">>}

FlightInputs ==
  {[lead |-> l, head |-> h, sep |-> p, digits |-> d, tail |-> t, text |-> l \o h \o p \o d \o t] :
     l \in Leads, h \in Heads, p \in Seps, d \in Numbers, t \in Tails}

ParseFlightCall ==
  /\ ~flightParsed.called
  /\ flightParsed' = parseFlightNumber(flightInput.text)
  /\ UNCHANGED <<parseFrame, flightInput, bcbpInput, bcbpParsed>>

\* --------------------------------------------------------- BCBPParser.parse
\* rawData.substring(from, to) and rawData.charAt(at), positions counted from 0
substring(str, from, to) ==
  SubSeq(str, from + 1, IF to < Len(str) THEN to ELSE Len(str))
charAt(str, at) == IF at < Len(str) THEN <<str[at + 1]>> ELSE <<>>

IsUpper(ch) == \E u \in DOMAIN UpperCase : UpperCase[u] = ch

RECURSIVE ToNumber(_)
ToNumber(digits) ==
  IF digits = <<>> THEN 0
  ELSE 10 * ToNumber(SubSeq(digits, 1, Len(digits) - 1))
         + (CHOOSE d \in DOMAIN Digits : Digits[d] = digits[Len(digits)]) - 1

\* parseInt(str, 10) on text without a sign: white space is skipped, the
\* digits that follow are read; NaN when there are none.
parseInt(str) ==
  LET a == SkipSpaces(str, 1)
      stop == {j \in a..Len(str) : ~IsDigit(str[j])}
      b == IF stop = {} THEN Len(str) + 1 ELSE CHOOSE j \in stop : \A k \in stop : j <= k
  IN IF b = a THEN [nan |-> TRUE, n |-> 0]
     ELSE [nan |-> FALSE, n |-> ToNumber(SubSeq(str, a, b - 1))]

\* parseJulianDate(julianDate): 'Unknown', or the date of that day of the
\* current year, kept as the day's number.
parseJulianDate(julianDate) ==
  LET dayOfYear == parseInt(julianDate) IN
    IF dayOfYear.nan THEN [known |-> FALSE, day |-> 0] ELSE [known |-> TRUE, day |-> dayOfYear.n]

\* conditionalData.match(/[A-Z]?\d{1,3}[A-Z]?/): the first match, or none (empty)
gateMatch(data) ==
  LET starts == {i \in DOMAIN data :
                   \/ IsDigit(data[i])
                   \/ IsUpper(data[i]) /\ i < Len(data) /\ IsDigit(data[i + 1])}
  IN IF starts = {} THEN <<>>
     ELSE LET i == CHOOSE j \in starts : \A k \in starts : j <= k
              d == IF IsDigit(data[i]) THEN i ELSE i + 1
              n == CHOOSE m \in 1..3 :
                     /\ \A j \in d..(d + m - 1) : j <= Len(data) /\ IsDigit(data[j])
                     /\ m = 3 \/ d + m > Len(data) \/ ~IsDigit(data[d + m])
              e == IF d + n <= Len(data) /\ IsUpper(data[d + n]) THEN d + n ELSE d + n - 1
          IN SubSeq(data, i, e)

BcbpNull == [called |-> TRUE, null |-> TRUE, rec |-> <<>>]

\* BCBPParser.parse(rawData), with the gate required
parse_GateRequired(rawData) ==
  IF rawData = <<>> \/ Len(rawData) < 60 THEN BcbpNull
  ELSE IF charAt(rawData, 0) \notin {<<"M">>, <<"O">>} THEN BcbpNull
  ELSE LET numLegs == parseInt(charAt(rawData, 1)) IN
    IF numLegs.nan \/ numLegs.n < 1 \/ numLegs.n > 4 THEN BcbpNull
    ELSE IF gateMatch(substring(rawData, 58, Len(rawData))) = <<>> THEN BcbpNull
    ELSE [called |-> TRUE, null |-> FALSE, rec |-> [barcode |-> rawData]]

\* BCBPParser.parse(rawData); an optional field that is undefined is empty
parse(rawData) ==
  IF rawData = <<>> \/ Len(rawData) < 60 THEN BcbpNull
  ELSE IF charAt(rawData, 0) \notin {<<"M">>, <<"O">>} THEN BcbpNull
  ELSE LET numLegs == parseInt(charAt(rawData, 1)) IN
    IF numLegs.nan \/ numLegs.n < 1 \/ numLegs.n > 4 THEN BcbpNull
    ELSE
      LET passengerName == trim(substring(rawData, 2, 22))
          confirmationCode == trim(substring(rawData, 23, 30))
          airline == trim(substring(rawData, 36, 39))
          flightNumber == trim(substring(rawData, 39, 44))
          departureTime == parseJulianDate(substring(rawData, 44, 47))
          seatNumber == trim(substring(rawData, 48, 52))
          passengerStatus == charAt(rawData, 57)
          conditional == Len(rawData) > 58
          gate == IF conditional THEN gateMatch(substring(rawData, 58, Len(rawData))) ELSE <<>>
          boardingGroup ==
            IF conditional /\ IsDigit(passengerStatus[1]) /\ passengerStatus # <<"0">>
              THEN <<"G", "r", "o", "u", "p", " ">> \o passengerStatus ELSE <<>>
      IN [called |-> TRUE, null |-> FALSE,
          rec |-> [flightNumber |-> airline \o flightNumber,
                   airline |-> airline,
                   gate |-> gate,
                   departureTime |-> departureTime,
                   passengerName |-> [i \in DOMAIN passengerName |->
                                        IF passengerName[i] = "/" THEN " " ELSE passengerName[i]],
                   seatNumber |-> seatNumber,
                   boardingGroup |-> boardingGroup,
                   boardingTime |-> <<>>,
                   barcode |-> rawData,
                   confirmationCode |-> confirmationCode]]

\* The barcode texts it is tried on: the mandatory items of one leg, 58
\* characters, of which the format code, the number of legs, the date and the
\* passenger status vary, and after them up to MaxTail more characters.
RECURSIVE TextsOver(_, _)
TextsOver(alphabet, n) ==
  IF n = 0 THEN {<<>>}
  ELSE LET shorter == TextsOver(alphabet, n - 1) IN
         shorter \cup {Append(t, ch) : t \in shorter, ch \in alphabet}

BcbpInputs ==
  {f \o l \o <<"D", "O", "E", "/", "J", "O", "H", "N", " ", " ", " ", " ", " ", " ", " ", " ",
               " ", " ", " ", " ", "E", "A", "B", "C", "1", "2", "3", " ", "L", "A", "S", "J",
               "F", "K", "A", "A", " ", "0", "1", "2", "3", " ">>
     \o j \o <<"Y", "0", "1", "2", "A", "0", "0", "0", "1", " ">> \o p \o t :
     f \in {<<"M">>, <<"O">>, <<"X">>},
     l \in {<<"0">>, <<"1">>, <<"4">>, <<"5">>, <<"x">>},
     j \in {<<"1", "2", "3">>, <<"a", "b", "c">>, <<" ", "7", "x">>},
     p \in {<<"1">>, <<"0">>, <<"A">>},
     t \in TextsOver({"A", "1", " "}, MaxTail)}

ParseBcbpCall ==
  /\ ~bcbpParsed.called
  /\ bcbpParsed' = parse(bcbpInput)
  /\ UNCHANGED <<parseFrame, flightInput, flightParsed, bcbpInput>>

\* ---------------------------------------------------------------- commands
SettleDelay == 300                     \* ms between showSearch and flightSetSearch
ClockStep == 150                       \* the clock advances by half that delay
Languages == {"en", "es", "fr"}

Call(op, arg) == [op |-> op, arg |-> arg, had |-> instance, at |-> clock, threw |-> FALSE]
Cmd(op, id, arg) == [op |-> op, inst |-> instance, call |-> id, at |-> clock, arg |-> arg]

\* performFlightSearch(): nothing without an instance, else flightSetSearch.
performFlightSearch(id) ==
  cmds' = IF instance = 0 THEN cmds ELSE Append(cmds, Cmd("flightSetSearch", id, ""))

\* flightSearch(query, showUI); how is "ui" when the search panel is to be
\* opened first (the parameter, or the configuration's default), else "direct".
flightSearch_NoGuard(how) ==
  /\ calls' = Append(calls, [Call("flightSearch", how) EXCEPT !.threw = instance = 0])
  /\ IF how = "ui"
       THEN /\ cmds' = Append(cmds, Cmd("showSearch", Len(calls) + 1, "gate.departures"))
            /\ timers' = timers \cup {[call |-> Len(calls) + 1, due |-> clock + SettleDelay]}
       ELSE /\ cmds' = Append(cmds, Cmd("flightSetSearch", Len(calls) + 1, ""))
            /\ UNCHANGED timers

flightSearch(how) ==
  /\ calls' = Append(calls, Call("flightSearch", how))
  /\ IF instance = 0
       THEN UNCHANGED <<cmds, timers>>
       ELSE IF how = "ui"
         THEN /\ cmds' = Append(cmds, Cmd("showSearch", Len(calls) + 1, "gate.departures"))
              /\ timers' = timers \cup {[call |-> Len(calls) + 1, due |-> clock + SettleDelay]}
         ELSE /\ performFlightSearch(Len(calls) + 1)
              /\ UNCHANGED timers

\* restoreInitialState(): fire('setState') with the saved state, if there is an
\* instance and a saved state; a warning otherwise.
restoreInitialState ==
  /\ calls' = Append(calls, Call("restoreInitialState", ""))
  /\ cmds' = IF instance # 0 /\ initialMapState # 0
               THEN Append(cmds, Cmd("setState", Len(calls) + 1, "saved"))
               ELSE cmds

\* setLanguage(language)
setLanguage(language) ==
  /\ calls' = Append(calls, Call("setLanguage", language))
  /\ cmds' = IF instance # 0
               THEN Append(cmds, Cmd("setLanguage", Len(calls) + 1, language))
               ELSE cmds

FlightSearchCall ==
  /\ Len(calls) < MaxCmds
  /\ \E how \in {"ui", "direct"} : flightSearch(how)
  /\ UNCHANGED <<sessionVars, sent, dirVars, gates, widget, comps, refresh, viewVars, appVars, initialMapState, clock>>

\* The callback of flightSearch's setTimeout runs, once its delay has elapsed.
TimerFires_Early ==
  \E t \in timers :
    /\ timers' = timers \ {t}
    /\ performFlightSearch(t.call)
    /\ UNCHANGED <<sessionVars, sent, dirVars, gates, widget, comps, refresh, viewVars, appVars,
                   initialMapState, calls, clock>>

TimerFires ==
  \E t \in timers :
    /\ clock >= t.due
    /\ timers' = timers \ {t}
    /\ performFlightSearch(t.call)
    /\ UNCHANGED <<sessionVars, sent, dirVars, gates, widget, comps, refresh, viewVars, appVars,
                   initialMapState, calls, clock>>

\* Time passes; it is followed while a timer is waiting for it.
ClockTick ==
  /\ \E t \in timers : clock < t.due
  /\ clock' = clock + ClockStep
  /\ UNCHANGED <<sessionVars, sent, dirVars, gates, widget, comps, refresh, viewVars, appVars, initialMapState,
                 calls, cmds, timers>>

RestoreCall ==
  /\ Len(calls) < MaxCmds
  /\ restoreInitialState
  /\ UNCHANGED <<sessionVars, sent, dirVars, gates, widget, comps, refresh, viewVars, appVars, initialMapState,
                 timers, clock>>

SetLanguageCall ==
  /\ Len(calls) < MaxCmds
  /\ \E language \in Languages : setLanguage(language)
  /\ UNCHANGED <<sessionVars, sent, dirVars, gates, widget, comps, refresh, viewVars, appVars, initialMapState,
                 timers, clock>>

DestroyCommand ==
  /\ Len(calls) < MaxCmds
  /\ calls' = Append(calls, Call("destroy", ""))
  /\ destroy
  /\ UNCHANGED <<LMInit, sdkLoadPromise, sdkPromises, deferreds, nextInst, inits,
                 loadCalls, waitCalls, sent, dirVars, gates, widget, comps, refresh, viewVars, appVars,
                 initialMapState, cmds, timers, clock>>

\* The component's effect saves the map's state in the store once the map is
\* ready and none is saved yet.
CaptureState ==
  /\ instance # 0
  /\ initialMapState = 0
  /\ initialMapState' = 1
  /\ UNCHANGED <<sessionVars, sent, dirVars, gates, widget, comps, refresh, viewVars, appVars, calls, cmds,
                 timers, clock>>

\* ---------------------------------------------------------- the kiosk store
defaultUserPreferences ==
  [language |-> "en", accessibility |-> [highContrast |-> FALSE, largeText |-> FALSE],
   audioEnabled |-> TRUE]

initialState ==
  [currentView |-> "idle", isMapVisible |-> FALSE, isMapReady |-> FALSE, selectedPOI |-> 0,
   language |-> "en", isNavigating |-> FALSE, userPreferences |-> defaultUserPreferences]

\* The store's actions, as the state each gives from state s.
setView(s, view) == [s EXCEPT !.currentView = view]
setMapVisible(s, isVisible) == [s EXCEPT !.isMapVisible = isVisible]
selectPOI(s, poi) ==
  IF poi # 0
    THEN [s EXCEPT !.selectedPOI = poi, !.isMapVisible = TRUE, !.currentView = "map"]
    ELSE [s EXCEPT !.selectedPOI = 0]
setNavigating(s, isNavigating) == [s EXCEPT !.isNavigating = isNavigating]
storeSetLanguage(s, language) ==
  [s EXCEPT !.language = language, !.userPreferences.language = language]
setUserPreferences(s, preferences) ==
  [s EXCEPT !.userPreferences =
     [f \in DOMAIN s.userPreferences |->
        IF f \in DOMAIN preferences THEN preferences[f] ELSE s.userPreferences[f]]]
reset(s) == [initialState EXCEPT !.isMapReady = s.isMapReady]

\* persist: the part of the state that is written at every set() ...
partialize(s) == [userPreferences |-> s.userPreferences]

Set(s) ==
  /\ store' = s
  /\ persisted' = [saved |-> TRUE, state |-> partialize(s)]

\* ... and merged over the initial state when the store is created.
rehydrate ==
  IF persisted.saved
    THEN [initialState EXCEPT !.userPreferences = persisted.state.userPreferences]
    ELSE initialState

\* Callers of the store's actions for views, language and preferences. What
\* the accessibility toolbar passes to setUserPreferences:
Preferences ==
  [accessibility : [highContrast : BOOLEAN, largeText : BOOLEAN]] \cup [audioEnabled : BOOLEAN]

SetViewCall ==
  /\ \E view \in {"idle", "directory", "gate-finder"} : view # store.currentView /\ Set(setView(store, view))
  /\ UNCHANGED storeFrame

StoreSetLanguageCall ==
  /\ \E language \in Languages : Set(storeSetLanguage(store, language))
  /\ UNCHANGED storeFrame

SetUserPreferencesCall ==
  /\ \E preferences \in Preferences : Set(setUserPreferences(store, preferences))
  /\ UNCHANGED storeFrame

ResetCall ==
  /\ Set(reset(store))
  /\ UNCHANGED storeFrame

\* The page is loaded again: the store is created from the initial state and
\* what local storage holds.
PageReload ==
  /\ store' = rehydrate
  /\ UNCHANGED <<storeFrame, persisted>>

\* ------------------------------------------------------- useInactivityTimer
Timeout == 60000                       \* config.inactivityTimeout, ms
HookStep == 30000                      \* the clock advances by half of it

Hook == [ref |-> timeoutRef, timers |-> hookTimers, next |-> nextTimer]

setHook(h) ==
  /\ timeoutRef' = h.ref
  /\ hookTimers' = h.timers
  /\ nextTimer' = h.next

clearTimer(h) ==
  IF h.ref # 0
    THEN [h EXCEPT !.timers = {t \in h.timers : t.id # h.ref}, !.ref = 0]
    ELSE h

\* startTimer: explicit when it is called as resumeTimer
startTimer_NoClear(h, explicit) ==
  [ref |-> h.next + 1,
   timers |-> h.timers \cup {[id |-> h.next + 1, at |-> clock, due |-> clock + Timeout,
                              explicit |-> explicit]},
   next |-> h.next + 1]

startTimer(h, explicit) ==
  LET c == clearTimer(h) IN
    [ref |-> c.next + 1,
     timers |-> c.timers \cup {[id |-> c.next + 1, at |-> clock, due |-> clock + Timeout,
                                explicit |-> explicit]},
     next |-> c.next + 1]

\* handleInteraction, as created with the values en and nav
handleInteraction(h, en, nav) == IF ~en \/ nav THEN h ELSE startTimer(h, FALSE)

\* The effect that sets up the listeners: the clean-up of its last run, then
\* its body with the values en and nav.
effect(h, en, nav) ==
  LET c == clearTimer(h) IN
    IF ~en THEN clearTimer(c)
    ELSE IF ~nav THEN startTimer(c, FALSE)
    ELSE c

\* A render with the values en and nav: the effect runs again when one of
\* them differs from the last render's.
rerender(h, en, nav) ==
  IF en # enabled \/ nav # store.isNavigating THEN effect(h, en, nav) ELSE h

\* AppLayout.handleTimeout
handleTimeout ==
  /\ sent' = IF instance # 0
               THEN sent \cup {[from |-> "handleTimeout", inst |-> instance,
                                torn |-> instance \in torn]}
               ELSE sent
  /\ Set(reset(store))
  /\ restoreInitialState

\* A timer of the hook is due: the callback runs onTimeout, and the store's
\* change is rendered.
HookTimerFires ==
  /\ \E t \in hookTimers :
       /\ clock >= t.due
       /\ fired' = Append(fired, [at |-> clock, armed |-> t.at, touched |-> lastTouch,
                                  explicit |-> t.explicit, enabled |-> enabled,
                                  nav |-> store.isNavigating])
       /\ setHook(rerender([Hook EXCEPT !.timers = @ \ {t}], enabled, FALSE))
  /\ handleTimeout
  /\ UNCHANGED <<kioskFrame, clock, enabled, lastTouch, backTask, userActs, userLeft>>

\* Time passes; it is followed while a timer of the hook is waiting for it.
HookTick ==
  /\ \E t \in hookTimers : clock < t.due
  /\ clock' = clock + HookStep
  /\ UNCHANGED <<kioskFrame, sent, calls, cmds, storeVars, enabled, timeoutRef, hookTimers,
                 nextTimer, lastTouch, fired, backTask, userActs, userLeft>>

UserActs == ~userLeft /\ userActs < MaxUserActs /\ userActs' = userActs + 1

\* The user touches the screen somewhere: touchstart, click or keydown
\* reaches the window's listener.
Interaction ==
  /\ UserActs
  /\ lastTouch' = clock
  /\ setHook(handleInteraction(Hook, enabled, store.isNavigating))
  /\ UNCHANGED <<kioskFrame, sent, calls, cmds, clock, storeVars, enabled, fired, backTask,
                 userLeft>>

\* IdleScreen.navigateToGate, for a gate that was found: the POI is selected,
\* isNavigating is set and the route is asked of the map; the click reaches
\* the window's listener as well.
NavigateToGate ==
  /\ UserActs
  /\ ~store.isMapVisible
  /\ lastTouch' = clock
  /\ Set(setNavigating(selectPOI(store, 1), TRUE))
  /\ sent' = IF instance # 0
               THEN sent \cup {[from |-> "showNavigationToGate", inst |-> instance,
                                torn |-> instance \in torn]}
               ELSE sent
  /\ setHook(handleInteraction(rerender(Hook, enabled, TRUE), enabled, TRUE))
  /\ UNCHANGED <<kioskFrame, calls, cmds, clock, enabled, fired, backTask, userLeft>>

\* MapView.handleBack: the map is reset now, the store 100 ms later.
HandleBack ==
  /\ UserActs
  /\ store.isMapVisible
  /\ lastTouch' = clock
  /\ sent' = IF instance # 0
               THEN sent \cup {[from |-> "handleBack", inst |-> instance,
                                torn |-> instance \in torn]}
               ELSE sent
  /\ setHook(handleInteraction(Hook, enabled, store.isNavigating))
  /\ backTask' = TRUE
  /\ UNCHANGED <<kioskFrame, calls, cmds, clock, storeVars, enabled, fired, userLeft>>

\* ... the delayed part of handleBack.
BackTaskRuns ==
  /\ backTask
  /\ backTask' = FALSE
  /\ Set(setView(setMapVisible(selectPOI(setNavigating(store, FALSE), 0), FALSE), "idle"))
  /\ setHook(rerender(Hook, enabled, FALSE))
  /\ UNCHANGED <<kioskFrame, sent, calls, cmds, clock, enabled, lastTouch, fired, userActs,
                 userLeft>>

\* The user walks away.
UserLeaves ==
  /\ ~userLeft
  /\ userLeft' = TRUE
  /\ UNCHANGED <<kioskFrame, sent, calls, cmds, clock, storeVars, enabled, timeoutRef,
                 hookTimers, nextTimer, lastTouch, fired, backTask, userActs>>

\* The hook's owner changes `enabled`, or calls what the hook returns.
EnabledChanges ==
  /\ UserActs
  /\ enabled' = ~enabled
  /\ setHook(rerender(Hook, ~enabled, store.isNavigating))
  /\ UNCHANGED <<kioskFrame, sent, calls, cmds, clock, storeVars, lastTouch, fired, backTask,
                 userLeft>>

PauseTimerCall ==
  /\ UserActs
  /\ setHook(clearTimer(Hook))
  /\ UNCHANGED <<kioskFrame, sent, calls, cmds, clock, storeVars, enabled, lastTouch, fired,
                 backTask, userLeft>>

ResumeTimerCall ==
  /\ UserActs
  /\ setHook(startTimer(Hook, TRUE))
  /\ UNCHANGED <<kioskFrame, sent, calls, cmds, clock, storeVars, enabled, lastTouch, fired,
                 backTask, userLeft>>

\* ------------------------------------------------------------ ErrorBoundary
Errors == {"render", "chunk"}          \* what a child may throw

getDerivedStateFromError(error) == [hasError |-> TRUE, error |-> error, errorCount |-> 0]

\* componentDidCatch, called with this.state = st: the increment is queued,
\* and the test reads this.state before it is applied.
componentDidCatch(st) ==
  /\ boundary' = [st EXCEPT !.errorCount = @ + 1]
  /\ caught' = Append(caught, [error |-> st.error, seen |-> st.errorCount,
                                 count |-> st.errorCount + 1])
  /\ IF st.errorCount >= 2
       THEN /\ reloadTimeout' = Len(caught) + 1
            /\ reloadTimers' = reloadTimers \cup {Len(caught) + 1}
       ELSE UNCHANGED <<reloadTimeout, reloadTimers>>

\* The children are rendered and one of them throws: React takes the state
\* from getDerivedStateFromError, commits the fallback and calls
\* componentDidCatch. The tree fails at every render.
ChildThrows ==
  /\ mounted
  /\ ~boundary.hasError
  /\ \E error \in Errors : componentDidCatch(getDerivedStateFromError(error))
  /\ waited' = FALSE
  /\ UNCHANGED <<boundaryFrame, reloads, mounted, resets>>

\* handleReset: the "Try Again" button of the fallback
HandleReset ==
  /\ mounted
  /\ boundary.hasError
  /\ resets < MaxResets
  /\ resets' = resets + 1
  /\ reloadTimers' = reloadTimers \ {reloadTimeout}
  /\ boundary' = [hasError |-> FALSE, error |-> "", errorCount |-> 0]
  /\ waited' = FALSE
  /\ UNCHANGED <<boundaryFrame, reloadTimeout, caught, reloads, mounted>>

\* Five seconds pass on the error screen: a reload timer that was set runs,
\* and the page starts again.
ReloadDelayPasses ==
  /\ mounted
  /\ boundary.hasError
  /\ ~waited
  /\ IF reloadTimers # {}
       THEN /\ reloads' = reloads + 1
            /\ boundary' = [hasError |-> FALSE, error |-> "", errorCount |-> 0]
            /\ reloadTimeout' = 0
            /\ reloadTimers' = {}
            /\ waited' = FALSE
       ELSE /\ waited' = TRUE
            /\ UNCHANGED <<boundary, reloadTimeout, reloadTimers, reloads>>
  /\ UNCHANGED <<boundaryFrame, caught, mounted, resets>>

\* componentWillUnmount
BoundaryUnmount ==
  /\ mounted
  /\ mounted' = FALSE
  /\ reloadTimers' = reloadTimers \ {reloadTimeout}
  /\ UNCHANGED <<boundaryFrame, boundary, reloadTimeout, caught, waited, reloads, resets>>

\* ---------------------------------------------------- BarcodeScannerService
Running == {k \in DOMAIN sessions : sessions[k] = "running"}

\* stopScanning(), as the new values of controls, isScanning and sessions
stopScanning ==
  /\ sessions' = IF controls # 0 THEN [sessions EXCEPT ![controls] = "stopped"] ELSE sessions
  /\ controls' = 0
  /\ isScanning' = FALSE

\* startScanning(...) up to its first await: the guard on isScanning, then
\* the list of cameras is asked for.
StartScanning ==
  /\ Len(scans) < MaxScans
  /\ scans' = Append(scans, [pc |-> IF isScanning THEN "refused" ELSE "devices"])
  /\ UNCHANGED <<scanFrame, isScanning, controls, sessions, scanEvents>>

\* ... the list of cameras has arrived: none is an error, reported and thrown
\* again; otherwise decodeFromVideoDevice is called and awaited.
DevicesResume ==
  \E i \in DOMAIN scans :
    /\ scans[i].pc = "devices"
    /\ \E n \in 0..1 :
         IF n = 0
           THEN /\ scans' = [scans EXCEPT ![i].pc = "failed"]
                /\ scanEvents' = Append(scanEvents, "onError")
           ELSE /\ scans' = [scans EXCEPT ![i].pc = "decoding"]
                /\ UNCHANGED scanEvents
    /\ UNCHANGED <<scanFrame, isScanning, controls, sessions>>

\* ... decodeFromVideoDevice has settled: with the controls of the session it
\* started, which are kept and isScanning set, or with an error.
DecodeResume ==
  \E i \in DOMAIN scans :
    /\ scans[i].pc = "decoding"
    /\ \E started \in BOOLEAN :
         IF started
           THEN /\ sessions' = Append(sessions, "running")
                /\ controls' = Len(sessions) + 1
                /\ isScanning' = TRUE
                /\ scans' = [scans EXCEPT ![i].pc = "done"]
                /\ UNCHANGED scanEvents
           ELSE /\ scans' = [scans EXCEPT ![i].pc = "failed"]
                /\ scanEvents' = Append(scanEvents, "onError")
                /\ UNCHANGED <<sessions, controls, isScanning>>
    /\ UNCHANGED scanFrame

StopScanningCall ==
  /\ controls # 0 \/ isScanning
  /\ stopScanning
  /\ UNCHANGED <<scanFrame, scans, scanEvents>>

\* A running session decodes a barcode: handleScanResult with a text that
\* parses, or with one that does not.
HandleScanResult ==
  /\ Len(scanEvents) < MaxScanEvents
  /\ \E k \in Running, valid \in BOOLEAN :
       IF valid
         THEN /\ stopScanning
              /\ scanEvents' = Append(scanEvents, "onResult")
         ELSE /\ scanEvents' = Append(scanEvents, "onError")
              /\ UNCHANGED <<sessions, controls, isScanning>>
  /\ UNCHANGED <<scanFrame, scans>>

\* ------------------------------------------------------------- the widget
\* The widget enters or leaves a state in which its tear-down throws.
WidgetChange ==
  /\ widget' = IF widget = "ok" THEN "throws" ELSE "ok"
  /\ UNCHANGED <<sessionVars, sent, dirVars, gates, comps, cmdVars, refresh, viewVars, appVars>>

\* ------------------------------------------------- the WayfinderMap component
\* The component's continuation of `await wayfinderService.init(...)` is a
\* microtask of init()'s settlement, so it runs in the step that settles init().
\* A state update on an unmounted component is dropped; the callbacks are called
\* whether or not the component is still mounted.
initMapReturns(i) ==
  [c \in DOMAIN comps |->
     IF comps[c].init = i /\ comps[c].pc = "awaitInit" /\ inits'[i].pc \in {"done", "failed"}
       THEN IF inits'[i].pc = "done"
              THEN [comps[c] EXCEPT !.pc = "done", !.mapReady = comps[c].mounted,
                                    !.ready = comps[c].ready + 1]
              ELSE [comps[c] EXCEPT !.pc = "failed", !.errors = comps[c].errors + 1]
       ELSE comps[c]]

\* The component mounts: the callback ref gets the container node, sets
\* initStartedRef and calls initMap(), which runs as far as init()'s first await.
\* One map view is on screen at a time.
Mount ==
  /\ Len(comps) < MaxMounts
  /\ \A c \in DOMAIN comps : ~comps[c].mounted
  /\ \E i \in DOMAIN inits :
       /\ InitStart(i)
       /\ comps' = Append(comps, [mounted |-> TRUE, initStarted |-> TRUE, mapReady |-> FALSE,
                                   init |-> i, pc |-> "awaitInit", left |-> "",
                                   ready |-> 0, errors |-> 0])
  /\ UNCHANGED <<sent, dirVars, gates, widget, cmdVars, refresh, viewVars, appVars>>

\* The component unmounts: the effect's cleanup runs with the mapReady of the
\* last render, and calls destroy() only if that is true.
Unmount ==
  \E c \in DOMAIN comps :
    /\ comps[c].mounted
    /\ IF comps[c].mapReady
         THEN /\ destroy
              /\ comps' = [comps EXCEPT ![c].mounted = FALSE, ![c].left = comps[c].pc,
                                         ![c].initStarted = FALSE]
         ELSE /\ comps' = [comps EXCEPT ![c].mounted = FALSE, ![c].left = comps[c].pc]
              /\ UNCHANGED <<torn, live, teardown, instance, instanceDeferred>>
    /\ UNCHANGED <<LMInit, sdkLoadPromise, sdkPromises, deferreds, nextInst, inits,
                   loadCalls, waitCalls, sent, dirVars, gates, widget, cmdVars, refresh, viewVars,
                   appVars>>

CompSdkLoaded ==
  \E i \in DOMAIN inits :
    /\ InitAfterSDK(i)
    /\ comps' = initMapReturns(i)
    /\ UNCHANGED <<sent, dirVars, gates, widget, cmdVars, refresh, viewVars, appVars>>

CompMapOk ==
  \E i \in DOMAIN inits :
    /\ InitNewMapOk(i)
    /\ comps' = initMapReturns(i)
    /\ UNCHANGED <<sent, dirVars, gates, widget, cmdVars, refresh, viewVars, appVars>>

CompMapFail ==
  \E i \in DOMAIN inits :
    /\ InitNewMapFail(i)
    /\ comps' = initMapReturns(i)
    /\ UNCHANGED <<sent, dirVars, gates, widget, cmdVars, refresh, viewVars, appVars>>

\* ----------------------------------------------------------- specification
InitSession ==
  /\ LMInit = 0
  /\ sdkLoadPromise = 0
  /\ instance = 0
  /\ instanceDeferred = 0
  /\ sdkPromises = <<>>
  /\ deferreds = <<>>
  /\ nextInst = 0
  /\ live = {}
  /\ torn = {}
  /\ inits = [i \in 1..MaxInits |-> [pc |-> "idle", load |-> 0, val |-> 0, err |-> "", nw |-> 0]]
  /\ loadCalls = <<>>
  /\ waitCalls = <<>>

\* The parts of the application around the services, at start.
InitLookups ==
  /\ routes = <<>>
  /\ flights = <<>>

NotParsed == [called |-> FALSE, null |-> FALSE, value |-> <<>>]

InitParsers ==
  /\ flightInput = [lead |-> <<>>, head |-> <<>>, sep |-> <<>>, digits |-> <<>>,
                    tail |-> <<>>, text |-> <<>>]
  /\ flightParsed = NotParsed
  /\ bcbpInput = <<>>
  /\ bcbpParsed = [called |-> FALSE, null |-> FALSE, rec |-> <<>>]

InitStore ==
  /\ store = initialState
  /\ persisted = [saved |-> FALSE, state |-> partialize(initialState)]

\* AppLayout has mounted the hook: enabled, and the first timer is running.
InitHook ==
  /\ enabled = TRUE
  /\ timeoutRef = 1
  /\ hookTimers = {[id |-> 1, at |-> 0, due |-> Timeout, explicit |-> FALSE]}
  /\ nextTimer = 1
  /\ lastTouch = 0
  /\ fired = <<>>
  /\ backTask = FALSE
  /\ userActs = 0
  /\ userLeft = FALSE

InitBoundary ==
  /\ boundary = [hasError |-> FALSE, error |-> "", errorCount |-> 0]
  /\ reloadTimeout = 0
  /\ reloadTimers = {}
  /\ caught = <<>>
  /\ waited = FALSE
  /\ reloads = 0
  /\ mounted = TRUE
  /\ resets = 0

InitScanner ==
  /\ isScanning = FALSE
  /\ controls = 0
  /\ scans = <<>>
  /\ sessions = <<>>
  /\ scanEvents = <<>>

InitRest == InitLookups /\ InitParsers /\ InitStore /\ InitHook /\ InitBoundary /\ InitScanner

InitServices ==
  /\ sent = {}
  /\ poiCache = [k \in Keys |-> 0]
  /\ allPOIsCache = 0
  /\ cacheTimestamp = 0
  /\ initPromise = 0
  /\ dirPromises = <<>>
  /\ dirRuns = <<>>
  /\ bulkFetches = 0
  /\ initCalls = <<>>
  /\ acc = [kind |-> "", key |-> "", pc |-> "none", p |-> 0, val |-> 0, err |-> "",
            postClear |-> FALSE, fetches |-> 0]
  /\ now = StartTime
  /\ gates = <<>>
  /\ widget = "ok"
  /\ teardown = [inst |-> 0, fire |-> "", threw |-> FALSE]
  /\ comps = <<>>
  /\ initialMapState = 0
  /\ calls = <<>>
  /\ cmds = <<>>
  /\ timers = {}
  /\ clock = 0
  /\ refresh = [pc |-> "none", wait |-> 0, map |-> 0, p |-> 0, fetchFailed |-> FALSE,
                src |-> "", val |-> 0, err |-> ""]
  /\ heap = <<>>
  /\ allRef = 0
  /\ poiRefs = [k \in Keys |-> 0]
  /\ populated = <<>>
  /\ given = <<>>

InitIdle == InitServices /\ InitRest

Init == InitSession /\ InitIdle

InitApp ==
  /\ InitIdle
  /\ LMInit = 0
  /\ sdkLoadPromise = 0
  /\ instance = 0
  /\ instanceDeferred = 0
  /\ sdkPromises = <<>>
  /\ deferreds = <<>>
  /\ nextInst = 0
  /\ live = {}
  /\ torn = {}
  /\ inits = [i \in 1..AppInits |-> [pc |-> "idle", load |-> 0, val |-> 0, err |-> "", nw |-> 0]]
  /\ loadCalls = <<>>
  /\ waitCalls = <<>>

SessionNext ==
  \/ InitCall \/ InitSdkLoaded \/ InitMapOk \/ InitMapFail
  \/ LoadSDKCall \/ SdkSettleOk \/ SdkSettleFail \/ WaitCall \/ DestroyCall

SpecSession == Init /\ [][SessionNext]_vars

DirectoryNext ==
  \/ InitCall \/ InitSdkLoaded \/ InitMapOk \/ InitMapFail
  \/ SdkSettleOk \/ SdkSettleFail \/ DestroyCall
  \/ InitializeCall \/ MapReady \/ BulkOk \/ BulkFail
  \/ AccessorCall \/ AccessorResume \/ ClearCacheCall \/ Tick

SpecDirectory == InitApp /\ [][DirectoryNext]_vars

GateNext ==
  \/ InitCall \/ InitSdkLoaded \/ InitMapOk \/ InitMapFail
  \/ SdkSettleOk \/ SdkSettleFail \/ DestroyCall
  \/ FindGateCall \/ FindGateResume

SpecGate == InitApp /\ [][GateNext]_vars

LookupsNext ==
  \/ InitCall \/ InitSdkLoaded \/ InitMapOk \/ InitMapFail
  \/ SdkSettleOk \/ SdkSettleFail \/ DestroyCall
  \/ FindGateCall \/ FindGateResume
  \/ RouteCall \/ RouteResume \/ FlightGateCall \/ FlightGateResume

SpecLookups == InitApp /\ [][LookupsNext]_vars

InitFlight ==
  /\ InitSession
  /\ InitServices
  /\ InitLookups
  /\ flightInput \in FlightInputs
  /\ flightParsed = NotParsed
  /\ bcbpInput = <<>>
  /\ bcbpParsed = [called |-> FALSE, null |-> FALSE, rec |-> <<>>]
  /\ InitStore
  /\ InitHook
  /\ InitBoundary
  /\ InitScanner

SpecFlight == InitFlight /\ [][ParseFlightCall]_vars

InitBcbp ==
  /\ InitSession
  /\ InitServices
  /\ InitLookups
  /\ flightInput = [lead |-> <<>>, head |-> <<>>, sep |-> <<>>, digits |-> <<>>,
                    tail |-> <<>>, text |-> <<>>]
  /\ flightParsed = NotParsed
  /\ bcbpInput \in BcbpInputs
  /\ bcbpParsed = [called |-> FALSE, null |-> FALSE, rec |-> <<>>]
  /\ InitStore
  /\ InitHook
  /\ InitBoundary
  /\ InitScanner

SpecBcbp == InitBcbp /\ [][ParseBcbpCall]_vars

\* The kiosk in use: the map session is up and its first state is saved.
InitKiosk ==
  /\ LMInit = 1
  /\ sdkLoadPromise = 1
  /\ instance = 1
  /\ instanceDeferred = 0
  /\ sdkPromises = <<[st |-> "resolved", val |-> 1]>>
  /\ deferreds = <<>>
  /\ nextInst = 1
  /\ live = {1}
  /\ torn = {}
  /\ inits = <<[pc |-> "done", load |-> 1, val |-> 1, err |-> "", nw |-> 0]>>
  /\ loadCalls = <<[who |-> "init", lm |-> 0, slot |-> 0, slotSt |-> "none", imports |-> 1,
                    ret |-> Later(1)]>>
  /\ waitCalls = <<>>
  /\ InitServices
  /\ InitRest

KioskNext ==
  \/ Interaction \/ NavigateToGate \/ HandleBack \/ BackTaskRuns \/ UserLeaves
  \/ HookTimerFires \/ HookTick

\* The timers and the clock are the browser's: a timer that is due runs, and
\* time does not stop.
SpecKiosk ==
  /\ InitKiosk /\ [][KioskNext]_vars
  /\ WF_vars(HookTick) /\ WF_vars(HookTimerFires) /\ WF_vars(BackTaskRuns)

BoundaryNext == ChildThrows \/ HandleReset \/ ReloadDelayPasses \/ BoundaryUnmount

\* React renders the children whenever the fallback is not shown, and time
\* does not stop.
SpecBoundary ==
  /\ InitKiosk /\ [][BoundaryNext]_vars
  /\ WF_vars(ChildThrows) /\ WF_vars(ReloadDelayPasses)

StoreNext ==
  SetViewCall \/ StoreSetLanguageCall \/ SetUserPreferencesCall \/ ResetCall \/ PageReload

SpecStore == InitKiosk /\ [][StoreNext]_vars

ScanNext ==
  StartScanning \/ DevicesResume \/ DecodeResume \/ StopScanningCall \/ HandleScanResult

SpecScanner == InitKiosk /\ [][ScanNext]_vars

HookNext == KioskNext \/ EnabledChanges \/ PauseTimerCall \/ ResumeTimerCall

SpecHook == InitKiosk /\ [][HookNext]_vars

InitComponent ==
  /\ InitIdle
  /\ LMInit = 0
  /\ sdkLoadPromise = 0
  /\ instance = 0
  /\ instanceDeferred = 0
  /\ sdkPromises = <<>>
  /\ deferreds = <<>>
  /\ nextInst = 0
  /\ live = {}
  /\ torn = {}
  /\ inits = [i \in 1..MaxMounts |-> [pc |-> "idle", load |-> 0, val |-> 0, err |-> "", nw |-> 0]]
  /\ loadCalls = <<>>
  /\ waitCalls = <<>>

ComponentNext ==
  \/ Mount \/ Unmount \/ CompSdkLoaded \/ CompMapOk \/ CompMapFail
  \/ SdkSettleOk \/ SdkSettleFail

SpecComponent == InitComponent /\ [][ComponentNext]_vars

TeardownNext ==
  \/ InitCall \/ InitSdkLoaded \/ InitMapOk \/ InitMapFail
  \/ SdkSettleOk \/ SdkSettleFail \/ WaitCall \/ DestroyCall \/ WidgetChange

SpecTeardown == InitApp /\ [][TeardownNext]_vars

CommandsNext ==
  \/ InitCall \/ InitSdkLoaded \/ InitMapOk \/ InitMapFail
  \/ SdkSettleOk \/ SdkSettleFail
  \/ FlightSearchCall \/ TimerFires \/ ClockTick \/ RestoreCall \/ SetLanguageCall
  \/ DestroyCommand \/ CaptureState

SpecCommands == InitApp /\ [][CommandsNext]_vars

RefreshNext ==
  \/ InitCall \/ InitSdkLoaded \/ InitMapOk \/ InitMapFail
  \/ SdkSettleOk \/ SdkSettleFail
  \/ InitializeCall \/ MapReady \/ BulkOk \/ BulkFail \/ ClearCacheCall
  \/ RefreshCall \/ RefreshMapReady \/ RefreshOk \/ RefreshFail \/ RefreshResume

SpecRefresh == InitApp /\ [][RefreshNext]_vars

ViewsNext ==
  \/ InitCall \/ InitSdkLoaded \/ InitMapOk \/ SdkSettleOk
  \/ InitializeCall \/ MapReady \/ BulkOkData \/ CategoryCall \/ CategoryResume \/ Tick
  \/ RefreshPopulated \/ RefreshMapReady \/ RefreshOk \/ RefreshFail \/ RefreshResume

\* One map session is started around the queries.
InitViews ==
  /\ InitIdle
  /\ LMInit = 0
  /\ sdkLoadPromise = 0
  /\ instance = 0
  /\ instanceDeferred = 0
  /\ sdkPromises = <<>>
  /\ deferreds = <<>>
  /\ nextInst = 0
  /\ live = {}
  /\ torn = {}
  /\ inits = <<[pc |-> "idle", load |-> 0, val |-> 0, err |-> "", nw |-> 0]>>
  /\ loadCalls = <<>>
  /\ waitCalls = <<>>

SpecViews == InitViews /\ [][ViewsNext]_vars

\* The category queries alone, over the richer POIs: the application has
\* started, the session is up and initialize() awaits its bulk request.
InitFetching ==
  /\ LMInit = 1
  /\ sdkLoadPromise = 1
  /\ instance = 1
  /\ instanceDeferred = 0
  /\ sdkPromises = <<[st |-> "resolved", val |-> 1]>>
  /\ deferreds = <<>>
  /\ nextInst = 1
  /\ live = {1}
  /\ torn = {}
  /\ inits = <<[pc |-> "done", load |-> 1, val |-> 1, err |-> "", nw |-> 0]>>
  /\ loadCalls = <<[who |-> "init", lm |-> 0, slot |-> 0, slotSt |-> "none", imports |-> 1,
                    ret |-> Later(1)]>>
  /\ waitCalls = <<[who |-> "directory", slot |-> 0, ret |-> Now(1), inst |-> 1]>>
  /\ sent = {[from |-> "fetchAllPOIs", inst |-> 1, torn |-> FALSE]}
  /\ poiCache = [k \in Keys |-> 0]
  /\ allPOIsCache = 0
  /\ cacheTimestamp = 0
  /\ initPromise = 1
  /\ dirPromises = <<Pending>>
  /\ dirRuns = <<[pc |-> "awaitBulk", wait |-> 1, map |-> 1, gen |-> 1]>>
  /\ bulkFetches = 1
  /\ initCalls = <<[slot |-> 0, ret |-> 1, runs |-> 1]>>
  /\ acc = [kind |-> "", key |-> "", pc |-> "none", p |-> 0, val |-> 0, err |-> "",
            postClear |-> FALSE, fetches |-> 0]
  /\ now = StartTime
  /\ gates = <<>>
  /\ widget = "ok"
  /\ teardown = [inst |-> 0, fire |-> "", threw |-> FALSE]
  /\ comps = <<>>
  /\ initialMapState = 0
  /\ calls = <<>>
  /\ cmds = <<>>
  /\ timers = {}
  /\ clock = 0
  /\ refresh = [pc |-> "none", wait |-> 0, map |-> 0, p |-> 0, fetchFailed |-> FALSE,
                src |-> "", val |-> 0, err |-> ""]
  /\ heap = <<>>
  /\ allRef = 0
  /\ poiRefs = [k \in Keys |-> 0]
  /\ populated = <<>>
  /\ given = <<>>
  /\ InitRest

CategoryNext == BulkOkRich \/ CategoryCall \/ CategoryResume

SpecCategory == InitFetching /\ [][CategoryNext]_vars

\* ------------------------------------------------------------------ helpers
Settled(i) == inits[i].pc \in {"done", "failed"}
LoadOutcome(c) == Outcome(loadCalls[c].ret, sdkPromises)
PendingDeferreds == {d \in 1..Len(deferreds) : deferreds[d].st = "pending"}

\* ------------------------------------------------------------------- claims

\* C1: every loadSDK() call made while a load is in flight makes no import() of
\* its own and returns the promise of that load, so each import() is shared by
\* all the calls of its batch (one import per promise, made by the first call);
\* a call made once the handle is cached makes no import() and returns that
\* handle, which is the one the import produced.
C1_IdempotentLoad ==
  /\ \A c \in 1..Len(loadCalls) :
       LET k == loadCalls[c] IN
         /\ (k.lm = 0 /\ k.slotSt = "pending") => (k.imports = 0 /\ k.ret = Later(k.slot))
         /\ k.lm # 0 => (k.imports = 0 /\ k.ret = Now(k.lm))
         /\ (k.lm = 0 /\ k.slotSt = "none") => (k.imports = 1 /\ k.ret.kind = "promise")
  /\ \A p \in 1..Len(sdkPromises) :
       Cardinality({c \in 1..Len(loadCalls) :
                      loadCalls[c].ret = Later(p) /\ loadCalls[c].imports = 1}) = 1
  /\ LET got == {LoadOutcome(c) : c \in 1..Len(loadCalls)} IN
       \A x, y \in got : (x.st = "resolved" /\ y.st = "resolved") => x.val = y.val
  /\ LMInit # 0 =>
       \E p \in 1..Len(sdkPromises) : sdkPromises[p] = [st |-> "resolved", val |-> LMInit]

\* C1 witness: three loadSDK() calls shared one import, which succeeded, and a
\* later call got the cached handle.
C1_Witness ==
  /\ Len(sdkPromises) = 1
  /\ sdkPromises[1].st = "resolved"
  /\ \E c, d, e \in 1..Len(loadCalls) :
       /\ c < d /\ d < e
       /\ loadCalls[c].ret = Later(1) /\ loadCalls[d].ret = Later(1)
       /\ loadCalls[e].ret = Now(LMInit)

\* C2 (as claimed): at most one instance is constructed and not torn down.
C2_SingleLiveInstance == Cardinality(live) <= 1

\* C3 (as claimed): once an init() call has settled, no promise handed out by
\* waitForInstance() before that moment is still pending.
C3_NoWaiterPendingAfterInit ==
  \A i \in DOMAIN inits :
    Settled(i) => \A w \in 1..inits[i].nw : WaitResult(w).st # "pending"

\* C4 (as claimed): a loadSDK() call made after the load has rejected starts a
\* new import().
C4_RetryAfterRejection ==
  \A c \in 1..Len(loadCalls) : loadCalls[c].slotSt = "rejected" => loadCalls[c].imports = 1

\* C5 (as claimed): an accessor called in the state clearCache() leaves does
\* not fail, and returns data of a bulk fetch made after the call.
C5_ClearCacheThenRefetch ==
  (acc.postClear /\ acc.pc \in {"done", "failed"})
    => (acc.pc = "done" /\ acc.val > acc.fetches)

\* C6, in every state: a waitForInstance() call made with a session got that
\* session's handle at once; a call made without one got the promise in the
\* slot, which is the only pending deferred there is; a deferred is resolved
\* with the handle of an init() that succeeded, and none is pending while a
\* session exists.
C6_State ==
  /\ \A w \in 1..Len(waitCalls) :
       LET k == waitCalls[w] IN
         /\ k.inst # 0 => k.ret = Now(k.inst)
         /\ k.inst = 0 => k.ret.kind = "promise"
         /\ (k.inst = 0 /\ k.slot # 0) => k.ret = Later(k.slot)
         /\ (k.ret.kind = "promise" /\ WaitResult(w).st = "pending")
              => k.ret.p = instanceDeferred
  /\ PendingDeferreds \subseteq {instanceDeferred}
  /\ \A d \in 1..Len(deferreds) :
       deferreds[d].st = "resolved"
         => \E i \in DOMAIN inits : inits[i].pc = "done" /\ inits[i].val = deferreds[d].val
  /\ instance # 0 => PendingDeferreds = {}

\* C6, in every step: a deferred that has settled never changes.
C6_Once ==
  \A d \in 1..Len(deferreds) : deferreds[d].st # "pending" => deferreds'[d] = deferreds[d]

\* C6: callers of waitForInstance() before init() succeeds share one promise,
\* which init() resolves with its handle, once; callers after it get the
\* current handle at once.
C6_WaitForInstance == []C6_State /\ [][C6_Once]_vars

\* C6 witness: two callers waited without a session and share a promise that
\* an init() resolved with its handle; a third asked later and got it at once.
C6_Witness ==
  \E a, b, c \in 1..Len(waitCalls) :
    /\ a < b /\ b < c
    /\ waitCalls[a].ret.kind = "promise" /\ waitCalls[b].ret = waitCalls[a].ret
    /\ WaitResult(a).st = "resolved"
    /\ waitCalls[c].ret = Now(WaitResult(a).val)

\* C7, in every step: the step in which init() fails at newMap() marks the
\* call failed, rejects every deferred that was pending and leaves the slot
\* empty; a waitForInstance() call made with no session and an empty slot gets
\* a fresh pending promise in the slot; the step in which an init() succeeds
\* resolves the pending promise in the slot with the new handle.
C7_Step ==
  /\ \A i \in DOMAIN inits :
       (inits[i].pc = "awaitNewMap" /\ inits'[i].pc = "failed") =>
         /\ inits'[i].err = "construct"
         /\ instanceDeferred' = 0
         /\ \A d \in PendingDeferreds : deferreds'[d].st = "rejected"
  /\ (Len(waitCalls') = Len(waitCalls) + 1 /\ instance = 0 /\ instanceDeferred = 0) =>
         /\ Len(deferreds') = Len(deferreds) + 1
         /\ instanceDeferred' = Len(deferreds')
         /\ deferreds'[instanceDeferred'] = Pending
         /\ waitCalls'[Len(waitCalls')].ret = Later(instanceDeferred')
  /\ \A i \in DOMAIN inits :
       (inits[i].pc = "awaitNewMap" /\ inits'[i].pc = "done" /\ instanceDeferred # 0) =>
         (deferreds[instanceDeferred].st = "pending" =>
            deferreds'[instanceDeferred] = [st |-> "resolved", val |-> inits'[i].val])

\* C7: an init() that fails at instance construction rejects to its caller,
\* rejects the pending waiters and clears the slot, so that a later
\* waitForInstance() gets a fresh promise, which a later successful init()
\* resolves with the new handle.
C7_InitFailureClearsSlot == [][C7_Step]_vars

\* C7 witness: an init() failed at newMap() with a waiter pending, who was
\* rejected; a caller who waited after the failure holds another promise, which
\* a later init() resolved with its handle.
C7_Witness ==
  \E i, j \in DOMAIN inits, a, b \in 1..Len(waitCalls) :
    /\ inits[i].pc = "failed" /\ inits[i].err = "construct"
    /\ inits[j].pc = "done"
    /\ a <= inits[i].nw /\ WaitResult(a).st = "rejected"
    /\ b > inits[i].nw /\ waitCalls[b].ret.kind = "promise"
    /\ waitCalls[b].ret # waitCalls[a].ret
    /\ WaitResult(b) = [st |-> "resolved", val |-> inits[j].val]

\* C8: an initialize() call made while the slot holds a promise (a fetch in
\* flight, or completed) returns that promise and starts no run of its own; so
\* at most one run has not failed, every bulk request was issued by a run of
\* initialize(), one per run at most, and never by an accessor.
C8_SharedInitialize ==
  /\ \A c \in 1..Len(initCalls) :
       initCalls[c].slot # 0 => (initCalls[c].ret = initCalls[c].slot /\ initCalls[c].runs = 0)
  /\ Cardinality({p \in 1..Len(dirPromises) : dirPromises[p].st # "rejected"}) <= 1
  /\ \A p \in 1..Len(dirPromises) : dirPromises[p].st # "rejected" <=> initPromise = p
  /\ bulkFetches = Cardinality({p \in 1..Len(dirRuns) : dirRuns[p].gen # 0})
  /\ \A p, q \in 1..Len(dirRuns) :
       (dirRuns[p].gen # 0 /\ dirRuns[p].gen = dirRuns[q].gen) => p = q
  /\ Len(dirRuns) = Len(dirPromises)

\* C8 witness: two initialize() calls share one run whose bulk fetch has
\* completed, and an accessor that waited for it has returned its data.
C8_Witness ==
  /\ Len(initCalls) >= 2
  /\ initCalls[1].ret = initCalls[2].ret
  /\ dirPromises[initCalls[1].ret].st = "resolved"
  /\ bulkFetches = 1
  /\ acc.pc = "done" /\ acc.p = initCalls[1].ret /\ acc.val = 1

\* C9 (as claimed): a findGate() call that has settled returned a gate POI if
\* the search for at least one of its variants finds one, and failed only if
\* the searches for all its variants fail.
C9_FirstSuccessWins ==
  \A g \in 1..Len(gates) :
    (gates[g].pc \in {"done", "failed"} /\ gates[g].map # 0) =>
      /\ (\E q \in Variants : gates[g].ans[q] = "match") => gates[g].res = "match"
      /\ gates[g].pc = "failed" => \A q \in Variants : gates[g].ans[q] = "reject"

\* C10 (as claimed): no request is sent to an instance that destroy() has
\* torn down.
C10_NoRequestToDestroyedInstance == \A r \in sent : ~r.torn

\* C11 (as claimed): a component that was unmounted while its init() was in
\* flight has, once every init() has settled, run no onMapReady callback, and
\* the session its init() created is not installed in the service.
C11_StaleInitIsNoOp ==
  \A c \in DOMAIN comps :
    (~comps[c].mounted /\ comps[c].left = "awaitInit" /\ \A i \in DOMAIN inits : inits[i].pc \in {"idle", "done", "failed"})
      => /\ comps[c].ready = 0
         /\ ~(inits[comps[c].init].pc = "done" /\ instance = inits[comps[c].init].val)

\* C12, in every step: a destroy() of a session does not throw, whatever the
\* widget's tear-down did, and leaves no handle and an empty slot; a
\* waitForInstance() call made after a destroy(), while no session exists and
\* the slot is empty, gets a promise that is new and pending.
C12_Step ==
  /\ (instance # 0 /\ teardown' # teardown) =>
        /\ teardown'.inst = instance
        /\ ~teardown'.threw
        /\ instance' = 0
        /\ instanceDeferred' = 0
  /\ (Len(waitCalls') = Len(waitCalls) + 1 /\ teardown.inst # 0 /\ instance = 0
        /\ instanceDeferred = 0) =>
        /\ waitCalls'[Len(waitCalls')].ret.kind = "promise"
        /\ \A w \in 1..Len(waitCalls) :
             waitCalls[w].ret # waitCalls'[Len(waitCalls')].ret
        /\ Outcome(waitCalls'[Len(waitCalls')].ret, deferreds').st = "pending"

\* C12: destroy() never throws; with a session it clears the handle and resets
\* the slot whether or not the widget's tear-down succeeded, so that later
\* waitForInstance() calls get a fresh promise.
C12_DestroyNeverThrows == [][C12_Step]_vars

\* C12 witness: a caller got the handle of a session; destroy() was called, the
\* widget's tear-down threw, the handle is gone; a later caller holds a
\* pending promise.
C12_Witness ==
  /\ teardown.inst # 0 /\ teardown.fire = "throws" /\ ~teardown.threw
  /\ instance = 0
  /\ \E a, b \in 1..Len(waitCalls) :
       /\ a < b
       /\ waitCalls[a].ret = Now(teardown.inst)
       /\ waitCalls[b].ret.kind = "promise" /\ WaitResult(b).st = "pending"

\* C13, in every step: a command called while no session exists does not throw,
\* sends nothing to any widget, schedules nothing, and leaves the state of the
\* service (and everything else but the record of the call) unchanged.
C13_Step ==
  (Len(calls') = Len(calls) + 1 /\ instance = 0) =>
    /\ calls'[Len(calls')].had = 0
    /\ ~calls'[Len(calls')].threw
    /\ UNCHANGED <<sessionVars, sent, dirVars, gates, widget, comps, initialMapState, cmds,
                   timers, clock>>

\* C13: flightSearch, restoreInitialState, setLanguage and destroy are no-ops
\* while no session exists.
C13_NoSessionNoOp == [][C13_Step]_vars

\* C13 witness: flightSearch with the search UI and then another command were
\* called without a session, and nothing was sent or scheduled.
C13_Witness ==
  /\ Len(calls) = 2
  /\ calls[1].had = 0 /\ calls[2].had = 0
  /\ calls[1].op = "flightSearch" /\ calls[1].arg = "ui"
  /\ calls[2].op \in {"restoreInitialState", "setLanguage", "destroy"}
  /\ cmds = <<>> /\ timers = {}

\* C14, in every state: a search command belongs to a flightSearch call and is
\* the only one of that call; for a call with the search UI it was sent no
\* earlier than the settle delay after the call, and after the call's showSearch;
\* for a call without, at the time of the call; it went to a session.
C14_State ==
  /\ \A k \in 1..Len(cmds) :
       cmds[k].op = "flightSetSearch" =>
         LET c == calls[cmds[k].call] IN
           /\ c.op = "flightSearch"
           /\ cmds[k].inst # 0
           /\ \A j \in 1..Len(cmds) :
                (cmds[j].op = "flightSetSearch" /\ cmds[j].call = cmds[k].call) => j = k
           /\ c.arg = "ui" =>
                /\ cmds[k].at >= c.at + SettleDelay
                /\ \E j \in 1..(k - 1) :
                     cmds[j].op = "showSearch" /\ cmds[j].call = cmds[k].call
           /\ c.arg = "direct" => cmds[k].at = c.at
  /\ \A k \in 1..Len(cmds) :
       cmds[k].op = "showSearch" => (calls[cmds[k].call].arg = "ui" /\ cmds[k].at = calls[cmds[k].call].at)

\* C14, in every step: a flightSearch call with a session and the search UI
\* sends showSearch and nothing else; one without the UI sends the search
\* command in the same step; a timer that runs without a session sends nothing.
C14_Step ==
  /\ (Len(calls') = Len(calls) + 1 /\ calls'[Len(calls')].op = "flightSearch" /\ instance # 0) =>
        /\ Len(cmds') = Len(cmds) + 1
        /\ cmds'[Len(cmds')].call = Len(calls')
        /\ cmds'[Len(cmds')].op =
             (IF calls'[Len(calls')].arg = "ui" THEN "showSearch" ELSE "flightSetSearch")
  /\ (timers' # timers /\ Len(calls') = Len(calls)) =>
        cmds' = IF instance = 0 THEN cmds
                ELSE Append(cmds, [op |-> "flightSetSearch", inst |-> instance,
                                   call |-> (CHOOSE t \in timers \ timers' : TRUE).call,
                                   at |-> clock, arg |-> ""])

\* C14: flightSearch with the search UI sends showSearch first and the search
\* command only after the settle delay; without the UI it sends the search
\* command within the call; at most one search command per call, and none if
\* there is no session when the search step runs.
C14_FlightSearchOrder == []C14_State /\ [][C14_Step]_vars

\* C14 witness: a call with the UI whose search command followed its showSearch
\* after the delay, a call without the UI whose search command went at once.
C14_Witness ==
  \E a, b \in 1..Len(cmds), d \in 1..Len(cmds) :
    /\ a < b
    /\ cmds[a].op = "showSearch" /\ cmds[b].op = "flightSetSearch"
    /\ cmds[a].call = cmds[b].call
    /\ cmds[b].at >= cmds[a].at + SettleDelay
    /\ cmds[d].op = "flightSetSearch" /\ calls[cmds[d].call].arg = "direct"

\* C15 (as claimed), in every step: restoreInitialState() called with a session
\* sends one command: setState with the saved state if there is one, and the
\* widget's reset-view command otherwise.
C15_Step ==
  (Len(calls') = Len(calls) + 1 /\ calls'[Len(calls')].op = "restoreInitialState"
     /\ instance # 0) =>
    /\ Len(cmds') = Len(cmds) + 1
    /\ SubSeq(cmds', 1, Len(cmds)) = cmds
    /\ cmds'[Len(cmds')].op = (IF initialMapState # 0 THEN "setState" ELSE "resetView")

C15_RestoreIssuesOneCommand == [][C15_Step]_vars

\* C16 (as claimed), in every step: getAllPOIs, getNavigablePOIs or
\* getPOIsBySecurityStatus called while the cache has never been populated -
\* initialize() in flight or not called - does not fail with the
\* not-initialized error; and when such a call resumes after the initialize()
\* it waited for has resolved, it returns the data of the populated cache.
C16_Step ==
  /\ (acc.pc \in {"none", "done", "failed"} /\ acc' # acc /\ acc'.kind = "ensure"
        /\ allPOIsCache = 0 /\ \A p \in 1..Len(dirPromises) : dirPromises[p].st # "resolved")
       => acc'.err # "not initialized"
  /\ (acc.pc = "await" /\ acc'.pc # "await" /\ acc.kind = "ensure"
        /\ dirPromises[acc.p].st = "resolved" /\ allPOIsCache # 0)
       => (acc'.pc = "done" /\ acc'.val = allPOIsCache)

C16_EarlyAccessorsBlock == [][C16_Step]_vars

\* C17 (as claimed), in every step: an accessor that returns data returns data
\* of a cache whose TTL has not elapsed.
C17_Step ==
  (acc' # acc /\ acc'.pc = "done") => (now - cacheTimestamp < CACHE_TTL)

C17_NoDataPastTTL == [][C17_Step]_vars

\* C19 (as claimed): a refreshSecurityWaitTimes() call whose fetch of the
\* fresh POIs failed, and which has settled, resolved with the wait times of
\* the cached snapshot.
C19_RefreshFallsBack ==
  (refresh.fetchFailed /\ refresh.pc \in {"done", "failed"})
    => (refresh.pc = "done" /\ refresh.src = "cached")

\* C18, in every state: a list that came from poiCache is the array, with the
\* contents, that an earlier query for the same key built and returned.
C18_State ==
  \A j \in 1..Len(given) :
    given[j].memo =>
      \E i \in 1..(j - 1) :
        /\ given[i].key = given[j].key /\ ~given[i].memo
        /\ given[i].ref = given[j].ref
        /\ given[i].list = given[j].list

\* C18, in every step: a category getter called while poiCache holds a list for
\* its key and the TTL has not elapsed returns that array at once, and no array
\* is built or changed.
C18_Step ==
  (acc.pc \in {"none", "done", "failed"} /\ (acc' # acc \/ given' # given)
     /\ acc'.kind = "category" /\ poiCache[acc'.key] # 0 /\ isCacheValid) =>
    /\ acc'.pc = "done"
    /\ given' = Append(given, [key |-> acc'.key, ref |-> poiRefs[acc'.key], memo |-> TRUE,
                                list |-> heap[poiRefs[acc'.key]]])
    /\ UNCHANGED <<heap, poiRefs, allRef>>

C20_BaseCacheReadOnly ==
  /\ allRef # 0 => heap[allRef] = populated
  /\ \A i \in 1..Len(given) : heap[given[i].ref] = given[i].list

\* C20 witness: two keys were queried and the wait times refreshed, once with
\* a failed fetch served from the cache; a returned list is in another order
\* than the cache, which is as populated.
C20_Witness ==
  /\ allRef # 0 /\ heap[allRef] = populated
  /\ \E i, j \in 1..Len(given) :
       /\ i < j /\ given[i].key # given[j].key
       /\ Len(given[i].list) = 2
       /\ given[i].list # SelectSeq(populated, LAMBDA poi : InCategory(poi, given[i].key))
  /\ refresh.pc = "done" /\ refresh.src = "cached"
  /\ Cardinality({c \in 1..Len(waitCalls) : waitCalls[c].who = "refresh"}) = 2

C22_NotFoundIsNotAnError ==
  /\ \A g \in 1..Len(gates) :
       (gates[g].map # 0 /\ \A q \in Variants : gates[g].ans[q] = "empty")
         => gates[g].pc # "failed"
  /\ \A f \in 1..Len(flights) :
       (flights[f].map # 0 /\ flights[f].ans # "match") => flights[f].pc # "failed"
  /\ \A r \in 1..Len(routes) :
       (routes[r].map # 0 /\ routes[r].ans # "route") => routes[r].pc # "failed"

\* C23 (as claimed): parseFlightNumber returns, for a two-letter code and one
\* to four digits, with nothing, a space or a hyphen between them, with or
\* without the word Flight before, the code in upper case followed by the
\* digits; for a name of its table, a space and one to four digits, the code
\* of that name followed by the digits; and null for a text with no code or
\* name, with no digits or more than four, or with something after the digits.
C23_ParseFlightNumber ==
  flightParsed.called =>
    LET in == flightInput
        flightWord == in.lead \in {<<>>, <<" ">>} \/ IsSpace(in.lead[Len(in.lead)])
        code == Len(in.head) = 2 /\ IsLetter(in.head[1]) /\ IsLetter(in.head[2])
        named == {n \in DOMAIN airlineMap : airlineMap[n].name = LowerOf(in.head)}
        number == Len(in.digits) \in 1..4
        ended == in.tail \in {<<>>, <<" ">>}
    IN /\ (flightWord /\ code /\ in.sep \in {<<>>, <<" ">>, <<"-">>} /\ number /\ ended)
            => (~flightParsed.null /\ flightParsed.value = UpperOf(in.head) \o in.digits)
       /\ (flightWord /\ named # {} /\ in.sep = <<" ">> /\ number /\ ended)
            => \A n \in named :
                 ~flightParsed.null /\ flightParsed.value = airlineMap[n].code \o in.digits
       /\ ((~code /\ named = {}) \/ ~number \/ ~ended) => flightParsed.null

\* C24: parse() returns null for a text shorter than 60 characters, for a text
\* that does not begin with M or O, and for a text whose second character is
\* not one of 1, 2, 3, 4; for every other text it returns a record of that
\* text, whether or not a gate, a boarding group or a date could be read.
C24_ParseIsTotal ==
  bcbpParsed.called =>
    IF \/ Len(bcbpInput) < 60
       \/ bcbpInput[1] \notin {"M", "O"}
       \/ bcbpInput[2] \notin {"1", "2", "3", "4"}
      THEN bcbpParsed.null
      ELSE ~bcbpParsed.null /\ bcbpParsed.rec.barcode = bcbpInput

\* C24 witness: parse() returned a record without a gate, without a boarding
\* group and with an unknown date.
C24_Witness ==
  /\ bcbpParsed.called /\ ~bcbpParsed.null
  /\ bcbpParsed.rec.gate = <<>>
  /\ bcbpParsed.rec.boardingGroup = <<>>
  /\ ~bcbpParsed.rec.departureTime.known

\* C25 (as claimed): once the user has walked away, the kiosk gets back to
\* the idle state: the idle view, no map, no selected POI, not navigating.
C25_ResetWhenLeftAlone ==
  userLeft ~> (/\ store.currentView = "idle" /\ ~store.isMapVisible
               /\ store.selectedPOI = 0 /\ ~store.isNavigating)

\* C26: the hook never has more than one timeout pending, and the pending one
\* is timeoutRef's; a timeout the hook started itself is pending only while
\* the hook is enabled and isNavigating is false. The callback runs only a full
\* timeout after its timer was started; unless the timer came from an explicit
\* resumeTimer, it runs with the hook enabled and isNavigating false, and a
\* callback that runs so runs a full timeout after the last interaction.
C26_OneTimerFullPeriod ==
  /\ Cardinality(hookTimers) <= 1
  /\ \A t \in hookTimers :
       /\ t.id = timeoutRef
       /\ ~t.explicit => enabled /\ ~store.isNavigating
  /\ \A i \in 1..Len(fired) :
       /\ fired[i].at - fired[i].armed >= Timeout
       /\ ~fired[i].explicit => fired[i].enabled /\ ~fired[i].nav
       /\ fired[i].enabled /\ ~fired[i].nav => fired[i].at - fired[i].touched >= Timeout

\* The callback has run for a timer that was started after the mount, and a
\* navigation has since left the hook without a timer.
C26_Witness ==
  /\ Len(fired) >= 1
  /\ ~fired[1].explicit
  /\ fired[1].armed > 0
  /\ store.isNavigating
  /\ hookTimers = {}

\* C27 (as claimed): while the render tree keeps failing, the error screen
\* leads to an automatic reload of the page, unless the boundary is unmounted.
C27_EventuallyReloaded ==
  (mounted /\ boundary.hasError) ~> (reloads > 0 \/ ~mounted)

\* C28 (as claimed): at most one decode session runs at a time, and a session
\* that runs is the one this.controls holds, so the next stopScanning stops it.
C28_OneDecodeSession ==
  /\ Cardinality(Running) <= 1
  /\ \A k \in Running : controls = k

\* C29: when a run of initialize() fails, at the wait for the map or at the
\* bulk request, its promise rejects (so every caller that was given it is
\* rejected), the slot is emptied and the base cache is left as it was, which
\* is empty unless a run has completed. An initialize() call made with the
\* slot empty starts a new run and returns that run's pending promise, never
\* a promise given out before; every run that got its map issued a bulk
\* request of its own.
C29_State ==
  /\ \A p \in 1..Len(dirRuns) :
       /\ dirRuns[p].pc = "failed" <=> dirPromises[p].st = "rejected"
       /\ dirRuns[p].pc \in {"awaitBulk", "done"} => dirRuns[p].gen # 0
  /\ \A c \in 1..Len(initCalls) :
       initCalls[c].slot = 0 =>
         /\ initCalls[c].runs = 1
         /\ \A d \in 1..(c - 1) : initCalls[d].ret # initCalls[c].ret
  /\ allPOIsCache # 0 =>
       \E p \in 1..Len(dirRuns) : dirRuns[p].pc = "done" /\ dirRuns[p].gen = allPOIsCache
  /\ initPromise # 0 => dirPromises[initPromise].st # "rejected"

C29_Step ==
  /\ \A p \in 1..Len(dirPromises) :
       (dirPromises[p].st = "pending" /\ dirPromises'[p].st = "rejected") =>
         /\ initPromise' = 0
         /\ allPOIsCache' = allPOIsCache
         /\ bulkFetches' = bulkFetches
  /\ Len(initCalls') > Len(initCalls) =>
       LET c == initCalls'[Len(initCalls')] IN
         /\ dirPromises'[c.ret].st # "rejected"
         /\ initPromise = 0 =>
              /\ c.ret = Len(dirPromises) + 1
              /\ dirPromises'[c.ret].st = "pending"
              /\ dirRuns'[c.ret].pc = "awaitMap"

C29_FailedInitializeIsRetryable == []C29_State /\ [][C29_Step]_vars

\* C29 witness: the first run's bulk request rejected and the accessor that
\* waited for it failed; the second initialize() call started a run that has
\* issued the second bulk request.
C29_Witness ==
  /\ Len(initCalls) = 2
  /\ dirRuns[1].pc = "failed" /\ dirRuns[1].gen = 1
  /\ dirPromises[initCalls[1].ret].st = "rejected"
  /\ acc.pc = "failed" /\ acc.p = initCalls[1].ret
  /\ initCalls[2].slot = 0 /\ initCalls[2].ret = 2
  /\ dirRuns[2].gen = 2
  /\ bulkFetches = 2

\* C30 (as claimed): the store's language and userPreferences.language are
\* equal in every reachable state.
C30_LanguagesAgree == store.language = store.userPreferences.language

====
